---- MODULE Spec2Model ----
(***************************************************************************)
(* Model of QuantitativeAnalyzer (src/quantitative_analyzer.py).           *)
(*                                                                         *)
(* Units.  Python floats are modelled by integers in fixed units:          *)
(*   prices, strikes, moving averages, RSI, P/E, P/B : whole units         *)
(*   MACD histogram                                   : tenths             *)
(*   implied volatility, dividend yield               : hundredths         *)
(*   sigma (volatility fed to the Greeks)             : 1/200              *)
(*   scores                                           : hundredths         *)
(* A put/call ratio is an exact fraction in lowest terms.                  *)
(* A float that may be missing is a cell: Num(n), NaN or None.             *)
(* A Python dict is a function whose DOMAIN is the set of its keys.        *)
(***************************************************************************)
EXTENDS Integers, Sequences, FiniteSets, TLC

VARIABLES
    pc,        \* position of the call inside get_quant_analysis
    ticker,    \* the ticker_symbol argument of the call
    provider,  \* what yfinance / pandas-ta / py_vollib answer for this ticker
    clock,     \* the wall clock read by datetime.now()
    analysis,  \* the local dict `analysis` of get_quant_analysis
    result,    \* what the call returned (NoResult while it runs)
    ran,       \* the stages entered by the current call, in order
    today,     \* the date _analyze_options_chain read in the current call
    ncalls,    \* number of calls started so far
    self,      \* the analyzer object's fields
    market_data, \* the local `market_data` of get_quant_analysis
    prev,      \* result, and date read, of the previous call
    threads,   \* the locals of each of the calls running concurrently
    chain_requests, \* the expirations ticker.option_chain was asked for in this call
    dash,      \* the dashboard application: its caches, its requests, its database
    etl        \* the pipeline run: its position, its log, the answers it gets

vars == <<pc, ticker, provider, clock, analysis, result, ran, today, ncalls,
          self, market_data, prev, threads, chain_requests, dash, etl>>

-----------------------------------------------------------------------------
(* Cells and dicts *)

Num(n) == [k |-> "num", v |-> n]
NaN == [k |-> "nan", v |-> 0]
None == [k |-> "none", v |-> 0]
\* a value that is not a number: a str, which Python does not order with a number
Str == [k |-> "str", v |-> 0]

IsNum(c) == c.k = "num"
\* pd.isna: true of NaN and of None
IsNa(c) == c.k \in {"nan", "none"}
\* Python truthiness of a float-or-None: None and 0 are falsy, NaN is truthy
Truthy(c) == c.k = "nan" \/ (c.k = "num" /\ c.v # 0)
\* float comparisons: any comparison with NaN is False
Gt(a, b) == IsNum(a) /\ IsNum(b) /\ a.v > b.v
Lt(a, b) == IsNum(a) /\ IsNum(b) /\ a.v < b.v
Ge(a, b) == IsNum(a) /\ IsNum(b) /\ a.v >= b.v
Le(a, b) == IsNum(a) /\ IsNum(b) /\ a.v <= b.v
\* float addition: NaN propagates
Add(a, b) == IF IsNum(a) /\ IsNum(b) THEN Num(a.v + b.v) ELSE NaN

EmptyDict == << >>
HasKey(d, key) == key \in DOMAIN d
\* d.get(key, default)
Get(d, key, default) == IF key \in DOMAIN d THEN d[key] ELSE default
\* d[key] = value
Put(d, key, value) == (key :> value) @@ d
\* d.update(e)
Update(d, e) == e @@ d

RECURSIVE GCD(_, _)
GCD(a, b) == IF b = 0 THEN a ELSE GCD(b, a % b)

\* the float p / c of two non-negative totals, c > 0, as an exact fraction
Frac(p, c) == [num |-> p \div GCD(p, c), den |-> c \div GCD(p, c)]
\* the literal 0 and the default 1.0
FracZero == [num |-> 0, den |-> 1]
FracOne == [num |-> 1, den |-> 1]
\* r > a/b and r < a/b for a fraction r and a decimal literal a/b
FracGt(r, a, b) == r.num * b > a * r.den
FracLt(r, a, b) == r.num * b < a * r.den

-----------------------------------------------------------------------------
(* _generate_signals *)

\* __init__, lines 48-61: the analyzer's fields (risk_free_rate in hundredths,
\* thresholds in hundredths of a score point, outlier_threshold in whole units)
Config ==
    [risk_free_rate |-> 2,
     historical_period |-> "1y",
     signal_thresholds |->
        [STRONG_BUY |-> 400, BUY |-> 200, NEUTRAL |-> <<-100, 100>>,
         SELL |-> -200, STRONG_SELL |-> -400],
     outlier_threshold |-> 3]

\* a comparison of the price with a moving average raises TypeError when the
\* price is None; otherwise only a fault inside the try block raises
ScoringRaises(a, fault) ==
    \/ fault
    \/ /\ a.current_price.k = "none"
       /\ HasKey(a.technical_indicators, "sma_50")
       /\ HasKey(a.technical_indicators, "sma_200")

\* lines 466-481: trend and moving-average crossover
TrendRule(price, tech) ==
    IF HasKey(tech, "sma_50") /\ HasKey(tech, "sma_200")
    THEN (IF Gt(price, tech["sma_200"])
          THEN [s |-> 100, why |-> <<"Bullish trend: Price above 200-day SMA">>]
          ELSE IF Lt(price, tech["sma_200"])
          THEN [s |-> -100, why |-> <<"Bearish trend: Price below 200-day SMA">>]
          ELSE [s |-> 0, why |-> << >>])
    ELSE [s |-> 0, why |-> << >>]

CrossRule(tech) ==
    IF HasKey(tech, "sma_50") /\ HasKey(tech, "sma_200")
    THEN (IF Gt(tech["sma_50"], tech["sma_200"])
          THEN [s |-> 50, why |-> <<"Bullish momentum: 50-day SMA above 200-day SMA">>]
          ELSE [s |-> -50, why |-> <<"Bearish momentum: 50-day SMA below 200-day SMA">>])
    ELSE [s |-> 0, why |-> << >>]

\* lines 484-493
RsiRule(tech) ==
    IF HasKey(tech, "rsi_14")
    THEN LET rsi == tech["rsi_14"] IN
         IF Lt(rsi, Num(30))
         THEN [s |-> 100, why |-> <<"Oversold conditions: RSI at {rsi:.1f}">>]
         ELSE IF Gt(rsi, Num(70))
         THEN [s |-> -100, why |-> <<"Overbought conditions: RSI at {rsi:.1f}">>]
         ELSE IF Le(Num(40), rsi) /\ Le(rsi, Num(60))
         THEN [s |-> 0, why |-> <<"Neutral RSI: {rsi:.1f}">>]
         ELSE [s |-> 0, why |-> << >>]
    ELSE [s |-> 0, why |-> << >>]

\* lines 496-503 with a full point for the MACD histogram
MacdRuleFullPoint(tech) ==
    IF HasKey(tech, "macd_histogram")
    THEN (IF Gt(tech["macd_histogram"], Num(0))
          THEN [s |-> 100, why |-> <<"Positive MACD momentum">>]
          ELSE [s |-> -100, why |-> <<"Negative MACD momentum">>])
    ELSE [s |-> 0, why |-> << >>]

\* lines 496-503
MacdRule(tech) ==
    IF HasKey(tech, "macd_histogram")
    THEN (IF Gt(tech["macd_histogram"], Num(0))
          THEN [s |-> 50, why |-> <<"Positive MACD momentum">>]
          ELSE [s |-> -50, why |-> <<"Negative MACD momentum">>])
    ELSE [s |-> 0, why |-> << >>]

\* lines 509-515 with a missing put_call_volume_ratio read as 0.0
PutCallRuleDefaultZero(om) ==
    LET put_call_ratio == Get(om, "put_call_volume_ratio", FracZero) IN
    IF FracGt(put_call_ratio, 12, 10)
    THEN [s |-> 100, why |-> <<"Contrarian sentiment: High put-call ratio ({put_call_ratio:.2f})">>]
    ELSE IF FracLt(put_call_ratio, 8, 10)
    THEN [s |-> -100, why |-> <<"Contrarian sentiment: Low put-call ratio ({put_call_ratio:.2f})">>]
    ELSE [s |-> 0, why |-> << >>]

\* lines 509-515: put_call_volume_ratio defaults to 1.0 when the key is missing
PutCallRule(om) ==
    LET put_call_ratio == Get(om, "put_call_volume_ratio", FracOne) IN
    IF FracGt(put_call_ratio, 12, 10)
    THEN [s |-> 100, why |-> <<"Contrarian sentiment: High put-call ratio ({put_call_ratio:.2f})">>]
    ELSE IF FracLt(put_call_ratio, 8, 10)
    THEN [s |-> -100, why |-> <<"Contrarian sentiment: Low put-call ratio ({put_call_ratio:.2f})">>]
    ELSE [s |-> 0, why |-> << >>]

\* lines 518-524
IvRule(om) ==
    LET call_iv == Get(om, "call_iv", None) IN
    IF Truthy(call_iv) /\ Gt(call_iv, Num(30))
    THEN [s |-> 50, why |-> <<"Elevated implied volatility (fear)">>]
    ELSE IF Truthy(call_iv) /\ Lt(call_iv, Num(15))
    THEN [s |-> -50, why |-> <<"Low implied volatility (complacency)">>]
    ELSE [s |-> 0, why |-> << >>]

\* lines 530-536 with a full point taken for an expensive P/E
PeRuleFullPoint(fund) ==
    LET pe_ratio == Get(fund, "forward_pe", None) IN
    IF Truthy(pe_ratio) /\ Le(Num(5), pe_ratio) /\ Le(pe_ratio, Num(30))
    THEN [s |-> 50, why |-> <<"Reasonable P/E ratio: {pe_ratio:.1f}">>]
    ELSE IF Truthy(pe_ratio) /\ Gt(pe_ratio, Num(30))
    THEN [s |-> -100, why |-> <<"High P/E ratio: {pe_ratio:.1f}">>]
    ELSE [s |-> 0, why |-> << >>]

\* lines 530-536
PeRule(fund) ==
    LET pe_ratio == Get(fund, "forward_pe", None) IN
    IF Truthy(pe_ratio) /\ Le(Num(5), pe_ratio) /\ Le(pe_ratio, Num(30))
    THEN [s |-> 50, why |-> <<"Reasonable P/E ratio: {pe_ratio:.1f}">>]
    ELSE IF Truthy(pe_ratio) /\ Gt(pe_ratio, Num(30))
    THEN [s |-> -50, why |-> <<"High P/E ratio: {pe_ratio:.1f}">>]
    ELSE [s |-> 0, why |-> << >>]

\* lines 539-542
PbRule(fund) ==
    LET pb_ratio == Get(fund, "price_to_book", None) IN
    IF Truthy(pb_ratio) /\ Lt(pb_ratio, Num(3))
    THEN [s |-> 50, why |-> <<"Reasonable P/B ratio: {pb_ratio:.1f}">>]
    ELSE [s |-> 0, why |-> << >>]

\* lines 545-548
DividendRule(fund) ==
    LET dividend_yield == Get(fund, "dividend_yield", None) IN
    IF Truthy(dividend_yield) /\ Gt(dividend_yield, Num(2))
    THEN [s |-> 50, why |-> <<"Attractive dividend yield: {dividend_yield*100:.1f}%">>]
    ELSE [s |-> 0, why |-> << >>]

\* lines 462-503 with the RSI entry appended before the trend entries
TechnicalScoreRsiFirst(a) ==
    LET tech == Get(a, "technical_indicators", EmptyDict)
        price == Get(a, "current_price", Num(0))
        r1 == TrendRule(price, tech)
        r2 == CrossRule(tech)
        r3 == RsiRule(tech)
        r4 == MacdRule(tech)
    IN [s |-> r1.s + r2.s + r3.s + r4.s, why |-> r3.why \o r1.why \o r2.why \o r4.why]

\* lines 462-503
TechnicalScore(a) ==
    LET tech == Get(a, "technical_indicators", EmptyDict)
        price == Get(a, "current_price", Num(0))
        r1 == TrendRule(price, tech)
        r2 == CrossRule(tech)
        r3 == RsiRule(tech)
        r4 == MacdRule(tech)
    IN [s |-> r1.s + r2.s + r3.s + r4.s, why |-> r1.why \o r2.why \o r3.why \o r4.why]

\* lines 506-524 scored whatever options_data_available says, a missing
\* put_call_volume_ratio read as 0.0
OptionsScoreDefaulted(a) ==
    LET om == Get(a, "options_metrics", EmptyDict)
        r1 == PutCallRule(Put(om, "put_call_volume_ratio",
                              Get(om, "put_call_volume_ratio", FracZero)))
        r2 == IvRule(om)
    IN [s |-> r1.s + r2.s, why |-> r1.why \o r2.why]

\* lines 506-524: evaluated only when options_data_available is true
OptionsScore(a) ==
    LET om == Get(a, "options_metrics", EmptyDict) IN
    IF Get(om, "options_data_available", FALSE)
    THEN LET r1 == PutCallRule(om)
             r2 == IvRule(om)
         IN [s |-> r1.s + r2.s, why |-> r1.why \o r2.why]
    ELSE [s |-> 0, why |-> << >>]

\* lines 527-548
FundamentalScore(a) ==
    LET fund == Get(a, "fundamental_metrics", EmptyDict)
        r1 == PeRule(fund)
        r2 == PbRule(fund)
        r3 == DividendRule(fund)
    IN [s |-> r1.s + r2.s + r3.s, why |-> r1.why \o r2.why \o r3.why]

\* line 551 with the options score left out of the sum
TotalWithoutOptions(t, o, f) == t + f

\* line 551
TotalScore(t, o, f) == t + o + f

\* lines 553-562 with strict comparisons at the thresholds
ClassifyStrict(total_score) ==
    IF total_score > self.signal_thresholds.STRONG_BUY THEN "STRONG_BUY"
    ELSE IF total_score > self.signal_thresholds.BUY THEN "BUY"
    ELSE IF total_score < self.signal_thresholds.STRONG_SELL THEN "STRONG_SELL"
    ELSE IF total_score < self.signal_thresholds.SELL THEN "SELL"
    ELSE "NEUTRAL"

\* lines 553-562
Classify(total_score) ==
    IF total_score >= self.signal_thresholds.STRONG_BUY THEN "STRONG_BUY"
    ELSE IF total_score >= self.signal_thresholds.BUY THEN "BUY"
    ELSE IF total_score <= self.signal_thresholds.STRONG_SELL THEN "STRONG_SELL"
    ELSE IF total_score <= self.signal_thresholds.SELL THEN "SELL"
    ELSE "NEUTRAL"

\* lines 454-582 with the error path keeping the reasoning appended so far
GenerateSignalsKeepsReasoning(a, fault) ==
    IF ScoringRaises(a, fault)
    THEN [signal |-> "NEUTRAL",
          confidence_score |-> 0,
          reasoning |-> TechnicalScore(a).why
                            \o <<"Error generating signal: {str(e)}">>,
          technical_score |-> 0,
          options_score |-> 0,
          fundamental_score |-> 0]
    ELSE LET t == TechnicalScore(a)
             o == OptionsScore(a)
             f == FundamentalScore(a)
             total_score == TotalScore(t.s, o.s, f.s)
         IN [signal |-> Classify(total_score),
             confidence_score |-> total_score,
             reasoning |-> t.why \o o.why \o f.why,
             technical_score |-> t.s,
             options_score |-> o.s,
             fundamental_score |-> f.s]

\* lines 454-582; fault: an exception is raised inside the try block
GenerateSignals(a, fault) ==
    IF ScoringRaises(a, fault)
    THEN [signal |-> "NEUTRAL",
          confidence_score |-> 0,
          reasoning |-> <<"Error generating signal: {str(e)}">>,
          technical_score |-> 0,
          options_score |-> 0,
          fundamental_score |-> 0]
    ELSE LET t == TechnicalScore(a)
             o == OptionsScore(a)
             f == FundamentalScore(a)
             total_score == TotalScore(t.s, o.s, f.s)
         IN [signal |-> Classify(total_score),
             confidence_score |-> total_score,
             reasoning |-> t.why \o o.why \o f.why,
             technical_score |-> t.s,
             options_score |-> o.s,
             fundamental_score |-> f.s]

-----------------------------------------------------------------------------
(* The stages.  A function that returns None returns PyNone here. *)

PyNone == [none |-> TRUE]
\* truthiness of a dict-or-None: None and {} are falsy
DictTruthy(d) == d # PyNone /\ DOMAIN d # {}

\* line 202: fewer bars than this and no indicator is computed
MinBars == 50

\* _fetch_market_data, lines 158-189.  p is what the provider answers:
\*   p.faults.fetch  "raise" when a provider call inside the try block raises
\*   p.empty         ticker.history(period="2d") is an empty frame
\*   p.close         its last Close
\*   p.history       ticker.history(period=self.historical_period)
\*   p.info          ticker.info
\*   p.expirations   ticker.options
FetchMarketData(p) ==
    IF p.faults.fetch = "raise" THEN PyNone
    ELSE IF p.empty THEN PyNone
    ELSE IF Le(p.close, Num(0)) THEN PyNone
    ELSE [current_price |-> p.close,
          historical_data |-> p.history,
          ticker_info |-> p.info,
          options_available |-> Len(p.expirations) > 0]

\* the result key of _calculate_technical_indicators for each pandas-ta column
IndicatorColumn ==
    [sma_50 |-> "SMA_50", sma_200 |-> "SMA_200", rsi_14 |-> "RSI_14",
     macd |-> "MACD_12_26_9", macd_signal |-> "MACDs_12_26_9",
     macd_histogram |-> "MACDh_12_26_9", bb_lower |-> "BBL_20_2.0",
     bb_middle |-> "BBM_20_2.0", bb_upper |-> "BBU_20_2.0",
     atr_14 |-> "ATRr_14"]

\* lines 223-255: a column is copied when it exists and its last value is not NaN
ComputedKeys(latest_data) ==
    {key \in DOMAIN IndicatorColumn :
        /\ IndicatorColumn[key] \in DOMAIN latest_data
        /\ ~IsNa(latest_data[IndicatorColumn[key]])}

\* lines 201-261 without the minimum of line 202
CalculateTechnicalIndicatorsNoMinimum(h, fault) ==
    IF fault = "raise" THEN PyNone
    ELSE LET keys == ComputedKeys(h.latest)
         IN IF keys # {} THEN [key \in keys |-> h.latest[IndicatorColumn[key]]]
            ELSE PyNone

\* _calculate_technical_indicators, lines 201-261.  h.len is len(historical_data),
\* h.latest the last row after pandas-ta appended its columns, fault = "raise"
\* when pandas-ta raises
CalculateTechnicalIndicators(h, fault) ==
    IF h.len < MinBars THEN PyNone
    ELSE IF fault = "raise" THEN PyNone
    ELSE LET keys == ComputedKeys(h.latest)
             technical_indicators ==
                 [key \in keys |-> h.latest[IndicatorColumn[key]]]
         IN IF keys # {} THEN technical_indicators ELSE PyNone

\* lines 277-298 without the upper limit of the range
ValidatedNoUpperLimit(ticker_info, name, lo, hi, closed) ==
    LET value == Get(ticker_info, name, None) IN
    IF /\ value.k # "none"
       /\ (IF closed THEN Le(Num(lo), value) ELSE Lt(Num(lo), value))
    THEN value
    ELSE None

\* lines 277-298: value = ticker_info.get(name); kept iff lo < value <= hi
\* (lo <= value when closed), else None
Validated(ticker_info, name, lo, hi, closed) ==
    LET value == Get(ticker_info, name, None) IN
    IF /\ value.k # "none"
       /\ (IF closed THEN Le(Num(lo), value) ELSE Lt(Num(lo), value))
       /\ Le(value, Num(hi))
    THEN value
    ELSE None

\* lines 278, 286, 294: `0 < value` raises TypeError when value is a str
RangeCheckRaises(ticker_info) ==
    \E name \in {"forwardPE", "priceToBook", "dividendYield"} :
        Get(ticker_info, name, None).k = "str"

\* _get_fundamental_metrics, lines 273-304; fault = "raise" when ticker_info is
\* not a mapping (ticker_info.get raises)
GetFundamentalMetrics(ticker_info, fault) ==
    IF fault = "raise" THEN PyNone
    ELSE IF RangeCheckRaises(ticker_info) THEN PyNone
    ELSE [forward_pe |-> Validated(ticker_info, "forwardPE", 0, 1000, FALSE),
          price_to_book |-> Validated(ticker_info, "priceToBook", 0, 100, FALSE),
          dividend_yield |-> Validated(ticker_info, "dividendYield", 0, 100, TRUE)]

-----------------------------------------------------------------------------
(* _analyze_options_chain *)

\* an expiration is [k |-> "date", v |-> day number] for a '%Y-%m-%d' string,
\* and [k |-> "bad", v |-> 0] for a string strptime rejects
Date(d) == [k |-> "date", v |-> d]
BadDate == [k |-> "bad", v |-> 0]

\* lines 331-335: the (exp_date, days_to_expiry) pairs inside the window
RECURSIVE ValidExpirations(_, _)
ValidExpirations(expirations, today_) ==
    IF expirations = << >> THEN << >>
    ELSE LET exp_date == Head(expirations)
             days_to_expiry == exp_date.v - today_
             rest == ValidExpirations(Tail(expirations), today_)
         IN IF 1 <= days_to_expiry /\ days_to_expiry <= 365
            THEN <<[exp_date |-> exp_date.v, days |-> days_to_expiry]>> \o rest
            ELSE rest

\* list.sort(key=lambda x: x[1]): stable, ascending
RECURSIVE Insert(_, _)
Insert(sorted, x) ==
    IF sorted = << >> THEN <<x>>
    ELSE IF Head(sorted).days <= x.days
         THEN <<Head(sorted)>> \o Insert(Tail(sorted), x)
         ELSE <<x>> \o sorted

RECURSIVE SortByDays(_)
SortByDays(pairs) ==
    IF pairs = << >> THEN << >>
    ELSE Insert(SortByDays(SubSeq(pairs, 1, Len(pairs) - 1)), pairs[Len(pairs)])

\* pandas unique(): first occurrences, in order
RECURSIVE Unique(_)
Unique(xs) ==
    IF xs = << >> THEN << >>
    ELSE LET before == Unique(SubSeq(xs, 1, Len(xs) - 1))
             last == xs[Len(xs)]
         IN IF \E i \in 1..Len(before) : before[i] = last
            THEN before ELSE Append(before, last)

Abs(x) == IF x < 0 THEN -x ELSE x

Strikes(rows) == [i \in 1..Len(rows) |-> rows[i].strike]

\* np.argmin(np.abs(all_strikes - current_price)) as a 1-based index: the first
\* index of the minimum; with a NaN price every distance is NaN and argmin is
\* the first index
ArgMinAbs(all_strikes, current_price) ==
    IF ~IsNum(current_price) THEN 1
    ELSE CHOOSE i \in 1..Len(all_strikes) :
            /\ \A j \in 1..Len(all_strikes) :
                  Abs(all_strikes[i] - current_price.v)
                      <= Abs(all_strikes[j] - current_price.v)
            /\ \A j \in 1..(i - 1) :
                  Abs(all_strikes[j] - current_price.v)
                      > Abs(all_strikes[i] - current_price.v)

\* series.fillna(0).sum()
RECURSIVE SumFilled(_, _)
SumFilled(rows, column) ==
    IF rows = << >> THEN 0
    ELSE (IF IsNum(Head(rows)[column]) THEN Head(rows)[column].v ELSE 0)
         + SumFilled(Tail(rows), column)

\* rows[rows['strike'] == atm_strike]
AtStrike(rows, atm_strike) == SelectSeq(rows, LAMBDA r : r.strike = atm_strike)

\* line 383: average IV, or the 0.25 default (50/200) when either is falsy
Sigma(call_iv, put_iv) ==
    IF Truthy(call_iv) /\ Truthy(put_iv) THEN Add(call_iv, put_iv) ELSE Num(50)

\* py_vollib's analytical.<greek>(flag, S, K, t, r, sigma): the value is kept as
\* the term it is computed from; t is in days (the code divides by 365.0)
Greek(greek, flag, S, K, days, r, sigma) ==
    [greek |-> greek, flag |-> flag, S |-> S, K |-> K, t |-> days, r |-> r,
     sigma |-> sigma]

\* lines 386-406
Greeks(S, K, days, r, sigma) ==
    [call_delta |-> Greek("delta", "c", S, K, days, r, sigma),
     call_gamma |-> Greek("gamma", "c", S, K, days, r, sigma),
     call_vega |-> Greek("vega", "c", S, K, days, r, sigma),
     call_theta |-> Greek("theta", "c", S, K, days, r, sigma),
     put_delta |-> Greek("delta", "p", S, K, days, r, sigma),
     put_gamma |-> Greek("gamma", "p", S, K, days, r, sigma),
     put_vega |-> Greek("vega", "p", S, K, days, r, sigma),
     put_theta |-> Greek("theta", "p", S, K, days, r, sigma)]

\* line 418-419 with the division unguarded: n / 0 stands for the inf or NaN
\* that numpy produces
RatioUnguarded(total_put, total_call) ==
    IF total_call > 0 THEN Frac(total_put, total_call)
    ELSE [num |-> total_put, den |-> 0]

\* lines 418-419: total_put / total_call if total_call > 0 else 0
Ratio(total_put, total_call) ==
    IF total_call > 0 THEN Frac(total_put, total_call) ELSE FracZero

\* line 362 taking the last of the nearest strikes instead of the first
AtmStrikeLast(all_strikes, current_price) ==
    IF ~IsNum(current_price) THEN all_strikes[1]
    ELSE LET i == CHOOSE i \in 1..Len(all_strikes) :
                    /\ \A j \in 1..Len(all_strikes) :
                          Abs(all_strikes[i] - current_price.v)
                              <= Abs(all_strikes[j] - current_price.v)
                    /\ \A j \in (i + 1)..Len(all_strikes) :
                          Abs(all_strikes[j] - current_price.v)
                              > Abs(all_strikes[i] - current_price.v)
         IN all_strikes[i]

\* line 362
AtmStrike(all_strikes, current_price) ==
    all_strikes[ArgMinAbs(all_strikes, current_price)]

\* lines 371-432 with a failure of the Greeks ending the ATM analysis: the
\* ratios and totals are not computed
AtmFieldsGreeksFailureStops(calls, puts, atm_strike, current_price, days, greeks_fault) ==
    LET call_iv == AtStrike(calls, atm_strike)[1].impliedVolatility
        put_iv == AtStrike(puts, atm_strike)[1].impliedVolatility
    IN [call_iv |-> IF IsNa(call_iv) THEN None ELSE call_iv,
        put_iv |-> IF IsNa(put_iv) THEN None ELSE put_iv]

\* lines 369-432: the fields added when both ATM rows exist
AtmFields(calls, puts, atm_strike, current_price, days, greeks_fault) ==
    LET call_data == AtStrike(calls, atm_strike)[1]
        put_data == AtStrike(puts, atm_strike)[1]
        call_iv == call_data.impliedVolatility
        put_iv == put_data.impliedVolatility
        ivs == [call_iv |-> IF IsNa(call_iv) THEN None ELSE call_iv,
                put_iv |-> IF IsNa(put_iv) THEN None ELSE put_iv]
        sigma == Sigma(call_iv, put_iv)
        greeks == IF greeks_fault = "raise" THEN EmptyDict
                  ELSE Greeks(current_price, atm_strike, days,
                              self.risk_free_rate, sigma)
        volumes ==
            [put_call_volume_ratio |->
                 Ratio(SumFilled(puts, "volume"), SumFilled(calls, "volume")),
             put_call_oi_ratio |->
                 Ratio(SumFilled(puts, "openInterest"),
                       SumFilled(calls, "openInterest")),
             atm_total_volume |-> Add(call_data.volume, put_data.volume),
             atm_total_oi |-> Add(call_data.openInterest, put_data.openInterest)]
    IN Update(Update(ivs, greeks), volumes)

OptionsUnavailable == [options_data_available |-> FALSE]

\* lines 342-343 without the sort
NearestExpirationsUnsorted(valid_expirations) ==
    SubSeq(valid_expirations, 1,
           IF Len(valid_expirations) < 2 THEN Len(valid_expirations) ELSE 2)

\* lines 342-343: sort by days to expiry, keep the first two
NearestExpirations(valid_expirations) ==
    LET sorted == SortByDays(valid_expirations)
    IN SubSeq(sorted, 1, IF Len(sorted) < 2 THEN Len(sorted) ELSE 2)

\* lines 434-436 returning the metrics computed before the failure
ChainFailureKeepsFields(options_metrics) == options_metrics

\* lines 434-436: an exception while the chain is fetched or processed;
\* options_metrics is what had been computed
ChainFailure(options_metrics) == OptionsUnavailable

\* _analyze_options_chain, lines 317-442.  o is what the provider answers:
\*   o.faults.options  "raise" when yf.Ticker / ticker.options raises
\*   o.faults.greeks   "raise" when py_vollib raises
\*   o.expirations     ticker.options
\*   o.chain           ticker.option_chain(exp_date): .fault, .calls, .puts;
\*                     .fault is "raise" when option_chain raises and "late"
\*                     when a frame has no volume column (line 412 raises)
AnalyzeOptionsChain(o, current_price, today_) ==
    IF o.faults.options = "raise" THEN OptionsUnavailable
    ELSE IF Len(o.expirations) = 0 THEN OptionsUnavailable
    ELSE IF \E i \in 1..Len(o.expirations) : o.expirations[i].k = "bad"
         THEN OptionsUnavailable
    ELSE LET valid_expirations == ValidExpirations(o.expirations, today_) IN
         IF valid_expirations = << >> THEN OptionsUnavailable
         ELSE LET nearest_expirations == NearestExpirations(valid_expirations)
                  exp_date == nearest_expirations[1].exp_date
                  days_to_expiry == nearest_expirations[1].days
                  options_metrics ==
                      [options_data_available |-> TRUE,
                       nearest_expiry |-> Date(exp_date)]
                  calls_ == o.chain.calls
                  puts_ == o.chain.puts
                  all_strikes == Unique(Strikes(calls_) \o Strikes(puts_))
              IN IF o.chain.fault = "raise" THEN ChainFailure(options_metrics)
                 ELSE IF all_strikes = << >> THEN ChainFailure(options_metrics)
                 ELSE LET atm_strike == AtmStrike(all_strikes, current_price)
                          with_atm == Put(options_metrics, "atm_strike",
                                          Num(atm_strike))
                      IN IF /\ AtStrike(calls_, atm_strike) # << >>
                            /\ AtStrike(puts_, atm_strike) # << >>
                         THEN LET with_fields ==
                                      Update(with_atm,
                                             AtmFields(calls_, puts_, atm_strike,
                                                       current_price,
                                                       days_to_expiry,
                                                       o.faults.greeks))
                              IN IF o.chain.fault = "late"
                                 THEN ChainFailure(with_fields)
                                 ELSE with_fields
                         ELSE with_atm

\* the exp_date arguments of the calls of ticker.option_chain, line 356: the
\* first of the nearest expirations alone
ChainRequests(o, today_) ==
    IF o.faults.options = "raise" THEN << >>
    ELSE IF \E i \in 1..Len(o.expirations) : o.expirations[i].k = "bad"
         THEN << >>
    ELSE LET valid_expirations == ValidExpirations(o.expirations, today_) IN
         IF valid_expirations = << >> THEN << >>
         ELSE <<NearestExpirations(valid_expirations)[1].exp_date>>

-----------------------------------------------------------------------------
(* get_quant_analysis *)

NoResult == [pending |-> TRUE]

\* str.upper() on the tickers of the model
Upper(t) ==
    CASE t = "aapl" -> "AAPL"
      [] t = "Msft" -> "MSFT"
      [] OTHER -> t

\* datetime.now().strftime('%Y-%m-%d %H:%M:%S'): the date and the second
Timestamp(now) == [date |-> now.date, sec |-> now.sec]

\* lines 81-95 with the warnings list shared between calls
InitialAnalysisSharedWarnings(ticker_symbol, now) ==
    [ticker |-> Upper(ticker_symbol),
     current_price |-> None,
     analysis_timestamp |-> Timestamp(now),
     technical_indicators |-> EmptyDict,
     fundamental_metrics |-> EmptyDict,
     options_metrics |-> [options_data_available |-> FALSE],
     trading_signal |-> EmptyDict,
     data_quality |->
         [technical_data_complete |-> FALSE,
          fundamental_data_complete |-> FALSE,
          options_data_complete |-> FALSE,
          warnings |-> IF prev.has THEN prev.result.data_quality.warnings
                       ELSE << >>]]

\* lines 81-95
InitialAnalysis(ticker_symbol, now) ==
    [ticker |-> Upper(ticker_symbol),
     current_price |-> None,
     analysis_timestamp |-> Timestamp(now),
     technical_indicators |-> EmptyDict,
     fundamental_metrics |-> EmptyDict,
     options_metrics |-> [options_data_available |-> FALSE],
     trading_signal |-> EmptyDict,
     data_quality |->
         [technical_data_complete |-> FALSE,
          fundamental_data_complete |-> FALSE,
          options_data_complete |-> FALSE,
          warnings |-> << >>]]

\* analysis['data_quality']['warnings'].append(w)
Warn(a, w) ==
    [a EXCEPT !.data_quality.warnings = Append(@, w)]

\* lines 139-146 with the handler re-raising instead of returning
CatchAllReraises(ticker_symbol, now) ==
    [pc |-> "raised", result |-> NoResult]

\* lines 139-146: the catch-all of get_quant_analysis
CatchAll(ticker_symbol, now) ==
    [pc |-> "returned",
     result |-> [ticker |-> Upper(ticker_symbol),
                 error |-> "{str(e)}",
                 analysis_timestamp |-> Timestamp(now),
                 data_quality |-> [warnings |-> <<"Analysis failed: {str(e)}">>]]]

\* lines 99-103 with the stages run on a missing price
AfterFetchNoReturn(a, md) ==
    IF md = PyNone
    THEN [pc |-> "technical", analysis |-> Warn(a, "Failed to fetch market data")]
    ELSE [pc |-> "technical", analysis |-> [a EXCEPT !.current_price = md.current_price]]

\* lines 98-103
AfterFetch(a, md) ==
    IF md = PyNone
    THEN [pc |-> "returned", analysis |-> Warn(a, "Failed to fetch market data")]
    ELSE [pc |-> "technical", analysis |-> [a EXCEPT !.current_price = md.current_price]]

\* lines 108-112
AfterTechnical(a, technical_indicators) ==
    IF DictTruthy(technical_indicators)
    THEN [a EXCEPT !.technical_indicators = technical_indicators,
                   !.data_quality.technical_data_complete = TRUE]
    ELSE Warn(a, "Failed to calculate technical indicators")

\* lines 117-121
AfterFundamental(a, fundamental_metrics) ==
    IF DictTruthy(fundamental_metrics)
    THEN [a EXCEPT !.fundamental_metrics = fundamental_metrics,
                   !.data_quality.fundamental_data_complete = TRUE]
    ELSE Warn(a, "Failed to get fundamental metrics")

\* lines 125-127
AfterOptions(a, options_metrics) ==
    IF DictTruthy(options_metrics)
    THEN [a EXCEPT !.options_metrics = options_metrics,
                   !.data_quality.options_data_complete = TRUE]
    ELSE a

\* lines 105-131 with the remaining metric stages skipped after a stage that
\* produced nothing
StageAfterStopsOnFailure(stage, produced) ==
    IF stage \in {"technical", "fundamental"} /\ ~DictTruthy(produced)
    THEN "signals"
    ELSE CASE stage = "technical" -> "fundamental"
           [] stage = "fundamental" -> "options"
           [] stage = "options" -> "signals"

\* lines 105-131: the statement that follows a stage, whatever it produced (no
\* branch of lines 108-127 returns)
StageAfter(stage, produced) ==
    CASE stage = "technical" -> "fundamental"
      [] stage = "fundamental" -> "options"
      [] stage = "options" -> "signals"

\* lines 130-131
AfterSignals(a, trading_signal) ==
    [a EXCEPT !.trading_signal = trading_signal]

-----------------------------------------------------------------------------
(* Bounds and provider answers *)

MaxCalls == 2
MaxDay == 1
MaxSec == 1

Tickers == {"aapl", "Msft", "AAPL"}

\* "raise": an exception raised inside the stage's try block;
\* "escape": an exception that leaves the stage (raised while it is handled)
NoFaults ==
    [fetch |-> "none", technical |-> "none", fundamental |-> "none",
     options |-> "none", greeks |-> "none", signals |-> "none"]
Stages == {"fetch", "technical", "fundamental", "options", "signals"}
\* any combination of contained exceptions, or one exception that escapes
FaultSets ==
    [fetch : {"none", "raise"}, technical : {"none", "raise"},
     fundamental : {"none", "raise"}, options : {"none", "raise"},
     greeks : {"none", "raise"}, signals : {"none", "raise"}]
    \cup {[NoFaults EXCEPT ![stage] = "escape"] : stage \in Stages}

Row(strike, volume, openInterest, impliedVolatility) ==
    [strike |-> strike, volume |-> volume, openInterest |-> openInterest,
     impliedVolatility |-> impliedVolatility]

\* a column pandas-ta did not append (window longer than the frame)
Absent == [k |-> "absent", v |-> 0]

\* the last row of the frame after pandas-ta: the ten indicator columns
LatestRow(sma50, sma200, rsi, macd, macds, macdh, bbl, bbm, bbu, atr) ==
    LET all == ("SMA_50" :> sma50) @@ ("SMA_200" :> sma200) @@ ("RSI_14" :> rsi)
               @@ ("MACD_12_26_9" :> macd) @@ ("MACDs_12_26_9" :> macds)
               @@ ("MACDh_12_26_9" :> macdh) @@ ("BBL_20_2.0" :> bbl)
               @@ ("BBM_20_2.0" :> bbm) @@ ("BBU_20_2.0" :> bbu)
               @@ ("ATRr_14" :> atr)
    IN [c \in {c \in DOMAIN all : all[c] # Absent} |-> all[c]]

\* ticker.history(period): the number of bars and the last row after pandas-ta
\* (for a frame the code does not hand to pandas-ta: what it would append).
\* SMA_200 exists only with 200 bars or more; a frame whose last closes are NaN
\* gives NaN in every column.
Histories ==
    {[len |-> MinBars - 1,
      latest |-> LatestRow(Absent, Absent, Num(50), Num(10), Num(5), Num(5),
                           Num(120), Num(140), Num(160), Num(3))],
     [len |-> MinBars,
      latest |-> LatestRow(Num(140), Absent, Num(50), Num(10), Num(5), Num(5),
                           Num(120), Num(140), Num(160), Num(3))],
     [len |-> MinBars,
      latest |-> LatestRow(NaN, Absent, NaN, NaN, NaN, NaN, NaN, NaN, NaN, NaN)],
     [len |-> 200,
      latest |-> LatestRow(Num(140), Num(130), Num(25), Num(10), Num(5), Num(5),
                           Num(120), Num(140), Num(160), Num(3))],
     [len |-> 200,
      latest |-> LatestRow(Num(120), Num(130), NaN, Num(-10), Num(-5), Num(-5),
                           NaN, NaN, NaN, Num(3))]}

\* ticker.info: P/E and P/B in whole units, dividend yield in hundredths
Infos ==
    {[forwardPE |-> Num(15), priceToBook |-> None, dividendYield |-> None],
     [forwardPE |-> Num(1500), priceToBook |-> Num(2), dividendYield |-> Num(3)],
     EmptyDict}

\* ticker.options: expiration dates as day numbers (day 0 is the first day of
\* the clock)
ExpirationLists ==
    {<< >>, <<Date(0)>>, <<Date(366), Date(1)>>, <<Date(2), BadDate>>}

\* ticker.option_chain(exp_date)
Chains ==
    {[fault |-> "raise", calls |-> << >>, puts |-> << >>],
     [fault |-> "none", calls |-> << >>, puts |-> << >>],
     [fault |-> "none",
      calls |-> <<Row(95, Num(10), Num(40), Num(30)), Row(100, Num(10), NaN, Num(40))>>,
      puts |-> <<Row(100, Num(30), Num(20), Num(30)), Row(105, NaN, Num(20), Num(20))>>],
     [fault |-> "none",
      calls |-> <<Row(100, Num(0), Num(0), NaN)>>,
      puts |-> <<Row(100, Num(500), Num(7), Num(0))>>],
     [fault |-> "none",
      calls |-> <<Row(100, Num(10), Num(10), Num(10))>>,
      puts |-> <<Row(105, Num(5), Num(10), Num(10))>>]}

\* the last Close of ticker.history(period="2d")
Closes == {Num(101), Num(150), NaN, Num(0), Num(-5)}

DefaultProvider ==
    [faults |-> NoFaults,
     empty |-> FALSE,
     close |-> Num(101),
     history |-> [len |-> 200,
                  latest |-> LatestRow(Num(140), Num(130), Num(25), Num(10),
                                       Num(5), Num(5), Num(120), Num(140),
                                       Num(160), Num(3))],
     info |-> [forwardPE |-> Num(15), priceToBook |-> None, dividendYield |-> None],
     expirations |-> <<Date(366), Date(1)>>,
     chain |-> [fault |-> "none",
                calls |-> <<Row(95, Num(10), Num(40), Num(30)),
                            Row(100, Num(10), NaN, Num(40))>>,
                puts |-> <<Row(100, Num(30), Num(20), Num(30)),
                           Row(105, NaN, Num(20), Num(20))>>]]

\* the provider answers of the model, on the default data: the histories and
\* infos, the expiration lists and chains, the closes, and the faults
Providers ==
    {[DefaultProvider EXCEPT !.close = c, !.history = h, !.info = i] :
        c \in {Num(101), NaN}, h \in Histories, i \in Infos}
    \cup {[DefaultProvider EXCEPT !.close = c, !.expirations = e, !.chain = ch] :
        c \in {Num(101), Num(150), NaN}, e \in ExpirationLists, ch \in Chains}
    \cup {[DefaultProvider EXCEPT !.close = c] : c \in Closes}
    \cup {[DefaultProvider EXCEPT !.empty = TRUE]}
    \cup {[DefaultProvider EXCEPT !.faults = f] : f \in FaultSets}

Clocks == [date : 0..MaxDay, sec : 0..MaxSec]
Later(a, b) == b.date > a.date \/ (b.date = a.date /\ b.sec > a.sec)

NoPrev == [has |-> FALSE, result |-> NoResult, today |-> None]

-----------------------------------------------------------------------------
(* The call, stage by stage *)

Init ==
    /\ pc = "idle"
    /\ ticker \in Tickers
    /\ provider \in Providers
    /\ (ticker # "aapl" => provider = DefaultProvider)
    /\ clock = [date |-> 0, sec |-> 0]
    /\ analysis = EmptyDict
    /\ result = NoResult
    /\ ran = << >>
    /\ today = None
    /\ ncalls = 0
    /\ self = Config
    /\ market_data = PyNone
    /\ prev = NoPrev
    /\ threads = << >>
    /\ chain_requests = << >>
    /\ dash = << >>
    /\ etl = << >>

\* time passes
Tick ==
    /\ \E now \in Clocks : Later(clock, now) /\ clock' = now
    /\ UNCHANGED <<pc, ticker, provider, analysis, result, ran, today, ncalls,
                   self, market_data, prev, threads, chain_requests, dash,
                   etl>>

\* lines 76-95: a caller invokes get_quant_analysis(ticker)
Call ==
    /\ pc = "idle"
    /\ ncalls < MaxCalls
    /\ ncalls' = ncalls + 1
    /\ analysis' = InitialAnalysis(ticker, clock)
    /\ pc' = "fetch"
    /\ result' = NoResult
    /\ ran' = << >>
    /\ today' = None
    /\ market_data' = PyNone
    /\ chain_requests' = << >>
    /\ UNCHANGED <<ticker, provider, clock, self, prev, threads, dash, etl>>

\* an exception left a stage: lines 139-146
Escape(stage) ==
    /\ provider.faults[stage] = "escape"
    /\ LET c == CatchAll(ticker, clock) IN pc' = c.pc /\ result' = c.result
    /\ ran' = Append(ran, stage)
    /\ UNCHANGED <<ticker, provider, clock, analysis, today, ncalls, self,
                   market_data, prev, threads, chain_requests, dash, etl>>

\* lines 97-103
StepFetch ==
    /\ pc = "fetch"
    /\ \/ Escape("fetch")
       \/ /\ provider.faults.fetch # "escape"
          /\ LET md == FetchMarketData(provider)
                 next == AfterFetch(analysis, md)
             IN /\ market_data' = md
                /\ analysis' = next.analysis
                /\ pc' = next.pc
                /\ result' = IF next.pc = "returned" THEN next.analysis ELSE result
          /\ ran' = Append(ran, "fetch")
          /\ UNCHANGED <<ticker, provider, clock, today, ncalls, self, prev,
                         threads, chain_requests, dash, etl>>

\* lines 105-112
StepTechnical ==
    /\ pc = "technical"
    /\ \/ Escape("technical")
       \/ /\ provider.faults.technical # "escape"
          /\ LET technical_indicators ==
                     CalculateTechnicalIndicators(market_data.historical_data,
                                                  provider.faults.technical)
             IN /\ analysis' = AfterTechnical(analysis, technical_indicators)
                /\ pc' = StageAfter("technical", technical_indicators)
          /\ ran' = Append(ran, "technical")
          /\ UNCHANGED <<ticker, provider, clock, result, today, ncalls, self,
                         market_data, prev, threads, chain_requests, dash,
                         etl>>

\* lines 114-121
StepFundamental ==
    /\ pc = "fundamental"
    /\ \/ Escape("fundamental")
       \/ /\ provider.faults.fundamental # "escape"
          /\ LET fundamental_metrics ==
                     GetFundamentalMetrics(market_data.ticker_info,
                                           provider.faults.fundamental)
             IN /\ analysis' = AfterFundamental(analysis, fundamental_metrics)
                /\ pc' = StageAfter("fundamental", fundamental_metrics)
          /\ ran' = Append(ran, "fundamental")
          /\ UNCHANGED <<ticker, provider, clock, result, today, ncalls, self,
                         market_data, prev, threads, chain_requests, dash,
                         etl>>

\* lines 123-127; line 329 reads the date
StepOptions ==
    /\ pc = "options"
    /\ \/ Escape("options")
       \/ /\ provider.faults.options # "escape"
          /\ LET options_metrics ==
                     AnalyzeOptionsChain(provider, market_data.current_price,
                                         clock.date)
             IN /\ analysis' = AfterOptions(analysis, options_metrics)
                /\ pc' = StageAfter("options", options_metrics)
          /\ today' = Num(clock.date)
          /\ chain_requests' = ChainRequests(provider, clock.date)
          /\ ran' = Append(ran, "options")
          /\ UNCHANGED <<ticker, provider, clock, result, ncalls, self,
                         market_data, prev, threads, dash, etl>>

\* lines 129-137
StepSignals ==
    /\ pc = "signals"
    /\ \/ Escape("signals")
       \/ /\ provider.faults.signals # "escape"
          /\ LET a == AfterSignals(analysis,
                         GenerateSignals(analysis,
                                         provider.faults.signals = "raise"))
             IN analysis' = a /\ result' = a
          /\ pc' = "returned"
          /\ ran' = Append(ran, "signals")
          /\ UNCHANGED <<ticker, provider, clock, today, ncalls, self,
                         market_data, prev, threads, chain_requests, dash,
                         etl>>

\* the caller has the result (or the exception); the analyzer is idle again
Return ==
    /\ pc \in {"returned", "raised"}
    /\ pc' = "idle"
    /\ prev' = [has |-> TRUE, result |-> result, today |-> today]
    /\ UNCHANGED <<ticker, provider, clock, analysis, result, ran, today,
                   ncalls, self, market_data, threads, chain_requests, dash,
                   etl>>

Next ==
    \/ Tick
    \/ Call
    \/ StepFetch
    \/ StepTechnical
    \/ StepFundamental
    \/ StepOptions
    \/ StepSignals
    \/ Return

Spec == Init /\ [][Next]_vars

-----------------------------------------------------------------------------
(* _generate_signals on its own: the call stands at line 130, with the
   analysis the first four stages produce from a provider answer *)

\* the analysis at line 130 for provider answer p
AtSignals(p, ticker_symbol, now) ==
    LET md == FetchMarketData(p)
        a1 == AfterFetch(InitialAnalysis(ticker_symbol, now), md).analysis
        a2 == AfterTechnical(a1,
                  CalculateTechnicalIndicators(md.historical_data,
                                               p.faults.technical))
        a3 == AfterFundamental(a2,
                  GetFundamentalMetrics(md.ticker_info, p.faults.fundamental))
    IN AfterOptions(a3, AnalyzeOptionsChain(p, md.current_price, now.date))

\* a history of 200 bars whose last row has these four indicators
SignalHistory(sma50, sma200, rsi, macdh) ==
    [len |-> 200,
     latest |-> LatestRow(sma50, sma200, rsi, NaN, NaN, macdh, NaN, NaN, NaN, NaN)]

\* a chain with one strike: total put volume pv, total call volume cv and the
\* ATM call's implied volatility iv
SignalChain(pv, cv, iv) ==
    [fault |-> "none",
     calls |-> <<Row(100, Num(cv), Num(1), iv)>>,
     puts |-> <<Row(100, Num(pv), Num(1), Num(30))>>]

SignalInfo(pe, pb, dy) ==
    [forwardPE |-> pe, priceToBook |-> pb, dividendYield |-> dy]

\* the end-to-end scenario of the specification: price 150, SMA50 140, SMA200
\* 130, RSI 25, MACD histogram 0.5, forward P/E 15, put/call ratio 1.5, call IV
\* 0.35
ScenarioProvider ==
    [DefaultProvider EXCEPT
        !.close = Num(150),
        !.history = SignalHistory(Num(140), Num(130), Num(25), Num(5)),
        !.info = SignalInfo(Num(15), None, None),
        !.expirations = <<Date(1)>>,
        !.chain = SignalChain(15, 10, Num(35))]

\* every combination of a few values of each metric
CoarseSignalProviders ==
    {[ScenarioProvider EXCEPT
        !.close = c,
        !.history = SignalHistory(s50, s200, rsi, mh),
        !.info = SignalInfo(pe, pb, dy),
        !.expirations = ch[1],
        !.chain = ch[2]] :
      c \in {Num(150), Num(100)},
      s50 \in {NaN, Num(140), Num(120)}, s200 \in {Absent, Num(130)},
      rsi \in {NaN, Num(25), Num(75)}, mh \in {NaN, Num(5), Num(-5)},
      pe \in {None, Num(15), Num(40)}, pb \in {None, Num(2)},
      dy \in {None, Num(3)},
      ch \in {<< << >>, SignalChain(15, 10, Num(35)) >>,
              << <<Date(1)>>, SignalChain(15, 10, Num(35)) >>,
              << <<Date(1)>>, SignalChain(5, 10, Num(10)) >>,
              << <<Date(1)>>, SignalChain(10, 10, NaN) >>}}

\* the scenario with one metric moved to and around each threshold
BoundarySignalProviders ==
    {[ScenarioProvider EXCEPT !.close = c] : c \in {Num(129), Num(130), Num(131), NaN}}
    \cup {[ScenarioProvider EXCEPT
              !.history = SignalHistory(s50, Num(130), rsi, mh)] :
            s50 \in {Num(129), Num(130), Num(131)},
            rsi \in {Num(29), Num(30), Num(39), Num(40), Num(60), Num(61),
                     Num(70), Num(71)},
            mh \in {Num(-1), Num(0), Num(1)}}
    \cup {[ScenarioProvider EXCEPT !.info = SignalInfo(pe, pb, dy)] :
            pe \in {Num(4), Num(5), Num(30), Num(31), Num(1000)},
            pb \in {Num(2), Num(3), Num(100)},
            dy \in {Num(0), Num(2), Num(3), Num(100)}}
    \cup {[ScenarioProvider EXCEPT !.chain = SignalChain(pv, cv, iv)] :
            pv \in {0, 8, 12, 13, 500}, cv \in {0, 10},
            iv \in {NaN, Num(0), Num(14), Num(15), Num(30), Num(31)}}
    \cup {[ScenarioProvider EXCEPT !.faults.signals = "raise"],
          [ScenarioProvider EXCEPT !.faults.signals = "escape"],
          [ScenarioProvider EXCEPT !.faults.technical = "raise",
                                   !.faults.fundamental = "raise",
                                   !.faults.options = "raise"],
          [ScenarioProvider EXCEPT !.chain.puts = <<Row(105, Num(5), Num(1), NaN)>>]}

SignalProviders == CoarseSignalProviders \cup BoundarySignalProviders

InitSignals ==
    /\ self = Config
    /\ pc = "signals"
    /\ ticker = "aapl"
    /\ provider \in SignalProviders
    /\ clock = [date |-> 0, sec |-> 0]
    /\ analysis = AtSignals(provider, ticker, clock)
    /\ result = NoResult
    /\ ran = <<"fetch", "technical", "fundamental", "options">>
    /\ today = Num(clock.date)
    /\ ncalls = 1
    /\ market_data = FetchMarketData(provider)
    /\ prev = NoPrev
    /\ threads = << >>
    /\ chain_requests = << >>
    /\ dash = << >>
    /\ etl = << >>

NextSignals == StepSignals

SpecSignals == InitSignals /\ [][NextSignals]_vars

-----------------------------------------------------------------------------
(* Properties of _generate_signals *)

\* the call returned the analysis dict (not the catch-all's dict)
ReturnedAnalysis == pc = "returned" /\ ~HasKey(result, "error")
\* ... and the signal stage produced its trading signal
ReturnedSignal == ReturnedAnalysis /\ result.trading_signal # EmptyDict

\* C4: in every trading signal returned by _generate_signals, on the normal path
\* and on the error path, confidence_score = technical_score + options_score +
\* fundamental_score.
C4_ConfidenceIsSum ==
    ReturnedSignal =>
        LET ts == result.trading_signal IN
        ts.confidence_score
            = ts.technical_score + ts.options_score + ts.fundamental_score

\* C4 witness: a signal whose three sub-scores are all non-zero
C4_Witness ==
    /\ ReturnedSignal
    /\ result.trading_signal.technical_score # 0
    /\ result.trading_signal.options_score # 0
    /\ result.trading_signal.fundamental_score # 0

\* the classification the specification gives, first match wins (hundredths)
C5_Class(total) ==
    IF total >= 400 THEN "STRONG_BUY"
    ELSE IF total >= 200 THEN "BUY"
    ELSE IF total <= -400 THEN "STRONG_SELL"
    ELSE IF total <= -200 THEN "SELL"
    ELSE "NEUTRAL"

\* C5: the signal is chosen from the total score by first match in the order
\* >= 4 STRONG_BUY, >= 2 BUY, <= -4 STRONG_SELL, <= -2 SELL, else NEUTRAL; so
\* 4.0 is STRONG_BUY, -4.0 STRONG_SELL, 2.0 BUY, -2.0 SELL, and a total strictly
\* between -2 and 2 is NEUTRAL.
C5_Classification ==
    (ReturnedSignal /\ provider.faults.signals = "none") =>
        LET ts == result.trading_signal
            total == ts.confidence_score
        IN /\ ts.signal = C5_Class(total)
           /\ (total = 400 => ts.signal = "STRONG_BUY")
           /\ (total = -400 => ts.signal = "STRONG_SELL")
           /\ (total = 200 => ts.signal = "BUY")
           /\ (total = -200 => ts.signal = "SELL")
           /\ ((-200 < total /\ total < 200) => ts.signal = "NEUTRAL")

\* C5 witness: a total of exactly -4.0, classified STRONG_SELL
C5_Witness ==
    /\ ReturnedSignal
    /\ result.trading_signal.confidence_score = -400
    /\ result.trading_signal.signal = "STRONG_SELL"

\* the other boundary totals, each reached as well
C5_ReachedStrongBuy == ReturnedSignal /\ result.trading_signal.confidence_score = 400
C5_ReachedBuy == ReturnedSignal /\ result.trading_signal.confidence_score = 200
C5_ReachedSell == ReturnedSignal /\ result.trading_signal.confidence_score = -200
C5_ReachedNeutral == ReturnedSignal /\ result.trading_signal.confidence_score = 150

\* the rules of the specification's section 4.4, on the metrics of a result
C6_Technical(a) ==
    LET t == a.technical_indicators
        price == a.current_price
    IN (IF HasKey(t, "sma_50") /\ HasKey(t, "sma_200")
        THEN (IF Gt(price, t["sma_200"]) THEN 100
              ELSE IF Lt(price, t["sma_200"]) THEN -100 ELSE 0)
             + (IF Gt(t["sma_50"], t["sma_200"]) THEN 50 ELSE -50)
        ELSE 0)
       + (IF HasKey(t, "rsi_14")
          THEN (IF Lt(t["rsi_14"], Num(30)) THEN 100
                ELSE IF Gt(t["rsi_14"], Num(70)) THEN -100 ELSE 0)
          ELSE 0)
       + (IF HasKey(t, "macd_histogram")
          THEN (IF Gt(t["macd_histogram"], Num(0)) THEN 50 ELSE -50)
          ELSE 0)

\* the implied-volatility rule; zeroCounts: a call IV of exactly 0 is below
\* 0.15 and scores -0.5
C6_Iv(om, zeroCounts) ==
    IF HasKey(om, "call_iv") /\ IsNum(om["call_iv"])
    THEN (IF om["call_iv"].v > 30 THEN 50
          ELSE IF om["call_iv"].v < 15 /\ (zeroCounts \/ om["call_iv"].v # 0)
          THEN -50 ELSE 0)
    ELSE 0

C6_Options(a, zeroCounts) ==
    LET om == a.options_metrics IN
    IF om.options_data_available
    THEN (IF HasKey(om, "put_call_volume_ratio")
          THEN (IF FracGt(om["put_call_volume_ratio"], 12, 10) THEN 100
                ELSE IF FracLt(om["put_call_volume_ratio"], 8, 10) THEN -100
                ELSE 0)
          ELSE 0)
         + C6_Iv(om, zeroCounts)
    ELSE 0

C6_Fundamental(a) ==
    LET f == a.fundamental_metrics
        pe == Get(f, "forward_pe", None)
        pb == Get(f, "price_to_book", None)
        dy == Get(f, "dividend_yield", None)
    IN (IF IsNum(pe) /\ 5 <= pe.v /\ pe.v <= 30 THEN 50
        ELSE IF IsNum(pe) /\ pe.v > 30 THEN -50 ELSE 0)
       + (IF IsNum(pb) /\ pb.v < 3 THEN 50 ELSE 0)
       + (IF IsNum(dy) /\ dy.v > 2 THEN 50 ELSE 0)

\* the metrics of the specification's end-to-end scenario
C6_IsScenario(a) ==
    /\ a.current_price = Num(150)
    /\ Get(a.technical_indicators, "sma_50", None) = Num(140)
    /\ Get(a.technical_indicators, "sma_200", None) = Num(130)
    /\ Get(a.technical_indicators, "rsi_14", None) = Num(25)
    /\ Get(a.technical_indicators, "macd_histogram", None) = Num(5)
    /\ Get(a.fundamental_metrics, "forward_pe", None) = Num(15)
    /\ Get(a.fundamental_metrics, "price_to_book", None) = None
    /\ Get(a.fundamental_metrics, "dividend_yield", None) = None
    /\ Get(a.options_metrics, "put_call_volume_ratio", FracOne) = Frac(3, 2)
    /\ Get(a.options_metrics, "call_iv", None) = Num(35)

C6_ScoresFollowRules(zeroCounts) ==
    (ReturnedSignal /\ provider.faults.signals = "none") =>
        LET ts == result.trading_signal IN
        /\ ts.technical_score = C6_Technical(result)
        /\ ts.options_score = C6_Options(result, zeroCounts)
        /\ ts.fundamental_score = C6_Fundamental(result)
        /\ (C6_IsScenario(result) =>
               /\ ts.technical_score = 300
               /\ ts.fundamental_score = 50
               /\ ts.options_score = 150
               /\ ts.confidence_score = 500
               /\ ts.signal = "STRONG_BUY")

\* C6: for every combination of present and absent metrics each sub-score is
\* the sum of the contributions of the rules of section 4.4 (among them: call
\* IV > 0.30 adds 0.5, call IV < 0.15 subtracts 0.5), and the end-to-end
\* scenario gives technical 3.0, fundamental 0.5, options 1.5, total 5.0,
\* STRONG_BUY.
C6_SubScores == C6_ScoresFollowRules(TRUE)

\* the same with a call IV of exactly 0 contributing nothing: what the code does
C6_SubScoresZeroIvIgnored == C6_ScoresFollowRules(FALSE)

\* the end-to-end scenario is reached
C6_ScenarioReached == ReturnedSignal /\ C6_IsScenario(result)

\* the reasoning entries of the options rules
C13_OptionsReasons ==
    {"Contrarian sentiment: High put-call ratio ({put_call_ratio:.2f})",
     "Contrarian sentiment: Low put-call ratio ({put_call_ratio:.2f})",
     "Elevated implied volatility (fear)",
     "Low implied volatility (complacency)"}

\* C13: in every result, options_data_available = false implies options_score
\* = 0 and no reasoning entry of an options rule; no options metric is read with
\* a default that changes the score.
C13_UnavailableScoresZero ==
    (ReturnedSignal /\ ~result.options_metrics.options_data_available) =>
        LET ts == result.trading_signal IN
        /\ ts.options_score = 0
        /\ \A i \in 1..Len(ts.reasoning) : ts.reasoning[i] \notin C13_OptionsReasons
        /\ ts.confidence_score = ts.technical_score + ts.fundamental_score

\* C13 witness: no expiration is listed, the chain would have given a put/call
\* ratio of 1.5 and a call IV of 0.35; the other two scores are non-zero and the
\* options score is 0
C13_Witness ==
    /\ ReturnedSignal
    /\ provider.expirations = << >>
    /\ provider.chain = SignalChain(15, 10, Num(35))
    /\ ~result.options_metrics.options_data_available
    /\ result.trading_signal.options_score = 0
    /\ result.trading_signal.technical_score = 300
    /\ result.trading_signal.fundamental_score = 150

\* options available: the options rules do score
C13_AvailableReached ==
    /\ ReturnedSignal
    /\ result.options_metrics.options_data_available
    /\ result.trading_signal.options_score = 150

\* the signal stage has returned to line 131
SignalsReturned == pc = "returned" /\ provider.faults.signals # "escape"

\* C17: _generate_signals never raises: when a step of the scoring fails it
\* returns signal NEUTRAL, technical_score, options_score, fundamental_score
\* and confidence_score all 0, and a reasoning list of exactly one entry that
\* describes the failure (entries appended before the failure are dropped).
C17_ErrorSignal ==
    SignalsReturned =>
        /\ ReturnedSignal
        /\ DOMAIN result.trading_signal
              = {"signal", "confidence_score", "reasoning", "technical_score",
                 "options_score", "fundamental_score"}
        /\ (provider.faults.signals = "raise" =>
               result.trading_signal
                   = [signal |-> "NEUTRAL",
                      confidence_score |-> 0,
                      reasoning |-> <<"Error generating signal: {str(e)}">>,
                      technical_score |-> 0,
                      options_score |-> 0,
                      fundamental_score |-> 0])

\* C17 witness: the scoring failed on an analysis whose technical rules had
\* reasoning to append, and the returned signal is the neutral one with its
\* single entry
C17_Witness ==
    /\ SignalsReturned
    /\ provider.faults.signals = "raise"
    /\ Len(TechnicalScore(result).why) = 4
    /\ result.trading_signal.signal = "NEUTRAL"
    /\ result.trading_signal.confidence_score = 0
    /\ Len(result.trading_signal.reasoning) = 1

\* the scoring ran to its end
Scored == ReturnedSignal /\ provider.faults.signals = "none"

C19_UpperReached == Scored /\ result.trading_signal.technical_score = 300

C20_UpperReached == Scored /\ result.trading_signal.fundamental_score = 150

\* <<entry>> when the rule fired, << >> when it did not
C21_If(fired, entry) == IF fired THEN <<entry>> ELSE << >>

\* the set has the metric and it is a number
C21_Number(d, key) == HasKey(d, key) /\ IsNum(d[key])

\* the entries of the nine rules, in the order trend, SMA crossover, RSI, MACD,
\* put/call ratio, implied volatility, forward P/E, price-to-book, dividend
\* yield, for the metrics of a result
C21_Entries(a) ==
    LET t == a.technical_indicators
        om == a.options_metrics
        f == a.fundamental_metrics
        smas == HasKey(t, "sma_50") /\ HasKey(t, "sma_200")
        rsi == IF C21_Number(t, "rsi_14") THEN t["rsi_14"].v ELSE 50
        hasRsi == C21_Number(t, "rsi_14")
        avail == om.options_data_available
        ratio == Get(om, "put_call_volume_ratio", FracOne)
        iv == IF C21_Number(om, "call_iv") THEN om["call_iv"].v ELSE 20
        pe == IF C21_Number(f, "forward_pe") THEN f["forward_pe"].v ELSE 0
        pb == IF C21_Number(f, "price_to_book") THEN f["price_to_book"].v ELSE 3
        dy == IF C21_Number(f, "dividend_yield") THEN f["dividend_yield"].v ELSE 0
    IN C21_If(smas /\ Gt(a.current_price, t["sma_200"]),
              "Bullish trend: Price above 200-day SMA")
       \o C21_If(smas /\ Lt(a.current_price, t["sma_200"]),
                 "Bearish trend: Price below 200-day SMA")
       \o C21_If(smas /\ Gt(t["sma_50"], t["sma_200"]),
                 "Bullish momentum: 50-day SMA above 200-day SMA")
       \o C21_If(smas /\ ~Gt(t["sma_50"], t["sma_200"]),
                 "Bearish momentum: 50-day SMA below 200-day SMA")
       \o C21_If(hasRsi /\ rsi < 30, "Oversold conditions: RSI at {rsi:.1f}")
       \o C21_If(hasRsi /\ rsi > 70, "Overbought conditions: RSI at {rsi:.1f}")
       \o C21_If(hasRsi /\ 40 <= rsi /\ rsi <= 60, "Neutral RSI: {rsi:.1f}")
       \o C21_If(HasKey(t, "macd_histogram") /\ Gt(t["macd_histogram"], Num(0)),
                 "Positive MACD momentum")
       \o C21_If(HasKey(t, "macd_histogram") /\ ~Gt(t["macd_histogram"], Num(0)),
                 "Negative MACD momentum")
       \o C21_If(avail /\ FracGt(ratio, 12, 10),
                 "Contrarian sentiment: High put-call ratio ({put_call_ratio:.2f})")
       \o C21_If(avail /\ FracLt(ratio, 8, 10),
                 "Contrarian sentiment: Low put-call ratio ({put_call_ratio:.2f})")
       \o C21_If(avail /\ iv > 30, "Elevated implied volatility (fear)")
       \o C21_If(avail /\ iv < 15 /\ iv # 0, "Low implied volatility (complacency)")
       \o C21_If(5 <= pe /\ pe <= 30, "Reasonable P/E ratio: {pe_ratio:.1f}")
       \o C21_If(pe > 30, "High P/E ratio: {pe_ratio:.1f}")
       \o C21_If(pb < 3 /\ pb # 0, "Reasonable P/B ratio: {pb_ratio:.1f}")
       \o C21_If(dy > 2, "Attractive dividend yield: {dividend_yield*100:.1f}%")

\* the number of rules that changed a score, plus one for an RSI between 40 and
\* 60
C21_Fired(a) ==
    LET t == a.technical_indicators
        Count(b) == IF b THEN 1 ELSE 0
    IN Count(HasKey(t, "sma_50") /\ HasKey(t, "sma_200")
                /\ (Gt(a.current_price, t["sma_200"])
                      \/ Lt(a.current_price, t["sma_200"])))
       + Count(HasKey(t, "sma_50") /\ HasKey(t, "sma_200"))
       + Count(C21_Number(t, "rsi_14")
                /\ (t["rsi_14"].v < 30 \/ t["rsi_14"].v > 70
                      \/ (40 <= t["rsi_14"].v /\ t["rsi_14"].v <= 60)))
       + Count(HasKey(t, "macd_histogram"))
       + Count(PutCallRule(a.options_metrics).s # 0
                /\ a.options_metrics.options_data_available)
       + Count(IvRule(a.options_metrics).s # 0
                /\ a.options_metrics.options_data_available)
       + Count(PeRule(a.fundamental_metrics).s # 0)
       + Count(PbRule(a.fundamental_metrics).s # 0)
       + Count(DividendRule(a.fundamental_metrics).s # 0)

\* C21: on the normal path the reasoning list holds exactly one entry per rule
\* that fired (one per score contribution, plus the neutral-RSI entry when
\* 40 <= RSI <= 60), in the order trend, SMA crossover, RSI, MACD, put/call
\* ratio, implied volatility, forward P/E, price-to-book, dividend yield; a
\* rule that does not fire adds no entry.
C21_ReasoningInOrder ==
    Scored =>
        /\ result.trading_signal.reasoning = C21_Entries(result)
        /\ Len(result.trading_signal.reasoning) = C21_Fired(result)

\* C21 witness: all nine rules fired, nine entries
C21_Witness ==
    /\ Scored
    /\ Len(result.trading_signal.reasoning) = 9
    /\ result.trading_signal.reasoning[1] = "Bullish trend: Price above 200-day SMA"
    /\ result.trading_signal.reasoning[9]
          = "Attractive dividend yield: {dividend_yield*100:.1f}%"

\* a neutral RSI leaves an entry without a score, and no rule fired leaves none
C21_NeutralRsiReached ==
    /\ Scored
    /\ \E i \in 1..Len(result.trading_signal.reasoning) :
          result.trading_signal.reasoning[i] = "Neutral RSI: {rsi:.1f}"
C21_NoEntryReached ==
    /\ Scored
    /\ result.trading_signal.reasoning = << >>

-----------------------------------------------------------------------------
(* _analyze_options_chain on its own: the call stands at line 124 *)

MaxRows == 2

\* the analysis at line 124 for provider answer p
AtOptions(p, ticker_symbol, now) ==
    LET md == FetchMarketData(p)
        a1 == AfterFetch(InitialAnalysis(ticker_symbol, now), md).analysis
        a2 == AfterTechnical(a1,
                  CalculateTechnicalIndicators(md.historical_data,
                                               p.faults.technical))
    IN AfterFundamental(a2,
           GetFundamentalMetrics(md.ticker_info, p.faults.fundamental))

SeqsUpTo(S, n) == UNION {[1..m -> S] : m \in 0..n}

StrikeValues == {95, 100, 102, 105}
VolumeCells == {NaN, Num(0), Num(250), Num(500)}
InterestCells == {NaN, Num(0), Num(7)}

\* rows at the given strikes, all with the same volume, open interest and IV
RowsAt(strikes) ==
    [i \in 1..Len(strikes) |-> Row(strikes[i], Num(10), Num(10), Num(30))]

\* chains that differ in their strikes, at three prices
StrikeProviders ==
    {[DefaultProvider EXCEPT
        !.close = c,
        !.expirations = <<Date(1)>>,
        !.chain = [fault |-> "none", calls |-> RowsAt(cs), puts |-> RowsAt(ps)]] :
      c \in {Num(100), Num(101), NaN},
      cs \in SeqsUpTo(StrikeValues, MaxRows),
      ps \in SeqsUpTo(StrikeValues, MaxRows)}

\* chains that differ in their volumes and open interests
VolumeProviders ==
    {[DefaultProvider EXCEPT
        !.close = Num(101),
        !.expirations = <<Date(1)>>,
        !.chain = [fault |-> "none",
                   calls |-> <<Row(100, cv1, co, Num(30)),
                               Row(105, cv2, Num(0), Num(30))>>,
                   puts |-> <<Row(100, pv1, po, Num(30)),
                              Row(95, pv2, Num(0), Num(30))>>]] :
      cv1 \in VolumeCells, cv2 \in VolumeCells,
      pv1 \in VolumeCells, pv2 \in VolumeCells,
      co \in InterestCells, po \in InterestCells}

OptionProviders ==
    StrikeProviders \cup VolumeProviders
    \cup {[DefaultProvider EXCEPT !.faults.options = f] : f \in {"raise", "escape"}}
    \cup {[DefaultProvider EXCEPT !.faults.greeks = "raise"],
          [DefaultProvider EXCEPT !.chain.fault = "raise"]}

InitOptions ==
    /\ self = Config
    /\ pc = "options"
    /\ ticker = "aapl"
    /\ provider \in OptionProviders
    /\ clock = [date |-> 0, sec |-> 0]
    /\ analysis = AtOptions(provider, ticker, clock)
    /\ result = NoResult
    /\ ran = <<"fetch", "technical", "fundamental">>
    /\ today = None
    /\ ncalls = 1
    /\ market_data = FetchMarketData(provider)
    /\ prev = NoPrev
    /\ threads = << >>
    /\ chain_requests = << >>
    /\ dash = << >>
    /\ etl = << >>

NextOptions == StepOptions

SpecOptions == InitOptions /\ [][NextOptions]_vars

\* the options stage has run and reported an ATM strike
AtmReported ==
    /\ pc = "signals"
    /\ HasKey(analysis.options_metrics, "atm_strike")

\* the call strikes followed by the put strikes
C8_AllStrikes == Strikes(provider.chain.calls) \o Strikes(provider.chain.puts)
C8_First(x) == CHOOSE i \in 1..Len(C8_AllStrikes) :
                  /\ C8_AllStrikes[i] = x
                  /\ \A j \in 1..(i - 1) : C8_AllStrikes[j] # x
C8_Distance(x) == Abs(x - provider.close.v)

\* C8: the reported ATM strike is the element of the union of the call strikes
\* followed by the put strikes (first occurrences) nearest to the current
\* price, and of several nearest strikes it is the first in that order; strikes
\* {95, 100, 105} and spot 101 give 100.
C8_AtmStrike ==
    (AtmReported /\ IsNum(provider.close)) =>
        LET atm == analysis.options_metrics.atm_strike.v
            all == {C8_AllStrikes[i] : i \in 1..Len(C8_AllStrikes)}
        IN /\ atm \in all
           /\ \A x \in all : C8_Distance(atm) <= C8_Distance(x)
           /\ \A x \in all :
                 (x # atm /\ C8_Distance(x) = C8_Distance(atm))
                     => C8_First(atm) < C8_First(x)
           /\ ((all = {95, 100, 105} /\ provider.close = Num(101)) => atm = 100)

\* C8 witness: two strikes at the same distance, the later one of the union
\* being the smaller; the first is reported
C8_Witness ==
    /\ AtmReported
    /\ provider.close = Num(101)
    /\ C8_AllStrikes = <<102, 100>>
    /\ analysis.options_metrics.atm_strike = Num(102)

\* the example of the specification is reached
C8_ExampleReached ==
    /\ AtmReported
    /\ provider.close = Num(101)
    /\ {C8_AllStrikes[i] : i \in 1..Len(C8_AllStrikes)} = {95, 100, 105}
    /\ analysis.options_metrics.atm_strike = Num(100)

\* the options stage has run and reported the put/call ratios
RatiosReported ==
    /\ pc = "signals"
    /\ HasKey(analysis.options_metrics, "put_call_volume_ratio")

\* the total of a column over the rows, a missing value counted as 0
C9_Total(rows, column) ==
    LET present == {i \in 1..Len(rows) : rows[i][column].k = "num"}
        RECURSIVE Sum(_)
        Sum(I) == IF I = {} THEN 0
                  ELSE LET i == CHOOSE i \in I : TRUE
                       IN rows[i][column].v + Sum(I \ {i})
    IN Sum(present)

\* ratio is 0 when the call total is 0, else put total / call total
C9_IsRatio(ratio, put_total, call_total) ==
    /\ ratio.den > 0
    /\ IF call_total = 0
       THEN ratio.num = 0
       ELSE ratio.num * call_total = put_total * ratio.den

\* C9: put_call_volume_ratio is 0 whenever the chain's total call volume is 0,
\* whatever the put volume (no error, infinity or NaN), and put_call_oi_ratio
\* likewise over open interest; otherwise each is put total / call total,
\* missing per-row values counted as 0.
C9_PutCallRatios ==
    RatiosReported =>
        LET om == analysis.options_metrics IN
        /\ C9_IsRatio(om.put_call_volume_ratio,
                      C9_Total(provider.chain.puts, "volume"),
                      C9_Total(provider.chain.calls, "volume"))
        /\ C9_IsRatio(om.put_call_oi_ratio,
                      C9_Total(provider.chain.puts, "openInterest"),
                      C9_Total(provider.chain.calls, "openInterest"))

\* C9 witness: put volume 500, call volume 0 (one of the call rows missing its
\* volume), ratio 0
C9_Witness ==
    /\ RatiosReported
    /\ C9_Total(provider.chain.puts, "volume") = 500
    /\ C9_Total(provider.chain.calls, "volume") = 0
    /\ \E i \in 1..Len(provider.chain.calls) : provider.chain.calls[i].volume = NaN
    /\ analysis.options_metrics.put_call_volume_ratio = FracZero

\* a ratio that is a proper quotient, with a missing value among the puts
C9_QuotientReached ==
    /\ RatiosReported
    /\ \E i \in 1..Len(provider.chain.puts) : provider.chain.puts[i].volume = NaN
    /\ analysis.options_metrics.put_call_volume_ratio = [num |-> 1, den |-> 3]

-----------------------------------------------------------------------------
(* Properties of get_quant_analysis *)

\* C1: whatever the provider does (any stage may fail or raise), the call
\* returns a result object and never propagates an exception; missing data
\* shows as flags, warnings and nulls.
C1_NeverRaises ==
    /\ pc # "raised"
    /\ pc = "returned" =>
          /\ result # NoResult
          /\ result.ticker = Upper(ticker)
          /\ HasKey(result, "analysis_timestamp")
          /\ HasKey(result.data_quality, "warnings")
          /\ (ReturnedAnalysis =>
                /\ (result.technical_indicators = EmptyDict
                       <=> ~result.data_quality.technical_data_complete)
                /\ (result.fundamental_metrics = EmptyDict
                       <=> ~result.data_quality.fundamental_data_complete)
                /\ (~result.data_quality.technical_data_complete
                       => Len(result.data_quality.warnings) > 0))

\* C1 witness: a call in which the technical, fundamental, options and signal
\* stages all raised has returned
C1_Witness ==
    /\ pc = "returned"
    /\ provider.faults.technical = "raise"
    /\ provider.faults.fundamental = "raise"
    /\ provider.faults.options = "raise"
    /\ provider.faults.signals = "raise"
    /\ Len(result.data_quality.warnings) = 2

\* the call returned the dict of the catch-all
ReturnedError == pc = "returned" /\ HasKey(result, "error")

\* C2: the terminal result returned when an exception escapes the stage
\* sequence holds the ticker, an error message, a timestamp, empty technical,
\* fundamental and options metric sets, and exactly one warning.
C2_TerminalResult ==
    ReturnedError =>
        /\ result.ticker = Upper(ticker)
        /\ HasKey(result, "error")
        /\ HasKey(result, "analysis_timestamp")
        /\ Len(result.data_quality.warnings) = 1
        /\ HasKey(result, "technical_indicators")
        /\ result.technical_indicators = EmptyDict
        /\ HasKey(result, "fundamental_metrics")
        /\ result.fundamental_metrics = EmptyDict
        /\ HasKey(result, "options_metrics")
        /\ result.options_metrics = OptionsUnavailable

\* what the terminal result does hold: ticker, error, timestamp, one warning,
\* and no metric set at all
C2_TerminalResultKeys ==
    ReturnedError =>
        /\ DOMAIN result = {"ticker", "error", "analysis_timestamp", "data_quality"}
        /\ DOMAIN result.data_quality = {"warnings"}
        /\ Len(result.data_quality.warnings) = 1

\* the price fetch failed: no recent bar, a non-positive price, or a provider
\* exception
FetchFails ==
    \/ provider.faults.fetch = "raise"
    \/ provider.empty
    \/ Le(provider.close, Num(0))

\* C3: when the price fetch fails the call returns current_price = null, empty
\* technical, fundamental and options sets and a warning "Failed to fetch
\* market data", and runs none of the technical, fundamental, options and
\* signal stages.
C3_FetchFailure ==
    (FetchFails /\ pc # "idle") =>
        /\ pc \in {"fetch", "returned"}
        /\ \A i \in 1..Len(ran) : ran[i] = "fetch"
        /\ pc = "returned" =>
              /\ result.current_price = None
              /\ result.technical_indicators = EmptyDict
              /\ result.fundamental_metrics = EmptyDict
              /\ result.options_metrics = OptionsUnavailable
              /\ result.trading_signal = EmptyDict
              /\ \E i \in 1..Len(result.data_quality.warnings) :
                    result.data_quality.warnings[i] = "Failed to fetch market data"

\* C3 witness: a call with a non-positive last close has returned
C3_Witness ==
    /\ pc = "returned"
    /\ provider.faults.fetch = "none"
    /\ ~provider.empty
    /\ Le(provider.close, Num(0))
    /\ result.data_quality.warnings = <<"Failed to fetch market data">>

\* the other two failures are reached as well
C3_EmptyReached == pc = "returned" /\ provider.empty
C3_RaiseReached == pc = "returned" /\ provider.faults.fetch = "raise"

\* the technical stage of the current call has run and the call returned its
\* analysis
TechnicalReturned == ReturnedAnalysis /\ Len(ran) >= 2

\* C7 as stated: indicators are present, and technical_data_complete is true,
\* if and only if the history has at least 50 bars.
C7_PresentIffFiftyBars ==
    TechnicalReturned =>
        ((/\ result.technical_indicators # EmptyDict
          /\ result.data_quality.technical_data_complete)
            <=> provider.history.len >= 50)

\* C7 amended: indicators are present, and technical_data_complete is true, if
\* and only if the history has at least 50 bars, pandas-ta did not raise and at
\* least one indicator of the last row is a number; otherwise the flag is false
\* and a warning is appended (so with 49 bars or fewer).  Every indicator that
\* is a number is in the set whatever the others are.
C7_TechnicalPresence ==
    TechnicalReturned =>
        LET computable == ComputedKeys(provider.history.latest)
            present == /\ provider.history.len >= 50
                       /\ provider.faults.technical # "raise"
                       /\ computable # {}
            dq == result.data_quality
        IN /\ dq.technical_data_complete <=> present
           /\ result.technical_indicators # EmptyDict <=> present
           /\ present =>
                 /\ DOMAIN result.technical_indicators = computable
                 /\ \A key \in computable :
                       result.technical_indicators[key]
                           = provider.history.latest[IndicatorColumn[key]]
           /\ ~present =>
                 \E i \in 1..Len(dq.warnings) :
                    dq.warnings[i] = "Failed to calculate technical indicators"

\* C7 witness: 50 bars, SMA_200 not computable, the other indicators present
C7_Witness ==
    /\ TechnicalReturned
    /\ provider.history.len = 50
    /\ result.data_quality.technical_data_complete
    /\ ~HasKey(result.technical_indicators, "sma_200")
    /\ HasKey(result.technical_indicators, "sma_50")

\* 49 bars: no indicators, flag false
C7_FortyNineReached ==
    /\ TechnicalReturned
    /\ provider.history.len = 49
    /\ ~result.data_quality.technical_data_complete

\* the previous call and this one both returned
TwoCallsReturned == pc = "returned" /\ prev.has

\* a result without its analysis_timestamp
WithoutTimestamp(r) == [key \in DOMAIN r \ {"analysis_timestamp"} |-> r[key]]

\* C10 as stated: two calls with identical provider responses and unchanged
\* configuration return results identical in every field.
C10_Idempotent ==
    TwoCallsReturned => result = prev.result

\* C10 amended: two calls with the same ticker, identical provider responses
\* and unchanged configuration, whose options stages read the same calendar
\* date, return results identical in every field except analysis_timestamp.
C10_IdempotentButClock ==
    (TwoCallsReturned /\ today = prev.today) =>
        WithoutTimestamp(result) = WithoutTimestamp(prev.result)

\* C10 witness: two calls on the same date in different seconds, whose results
\* differ in the timestamp alone
C10_Witness ==
    /\ TwoCallsReturned
    /\ today = prev.today
    /\ today # None
    /\ result.analysis_timestamp # prev.result.analysis_timestamp
    /\ result.options_metrics.options_data_available

\* two calls on different dates whose results differ beyond the timestamp
C10_DateMattersReached ==
    /\ TwoCallsReturned
    /\ today # prev.today
    /\ WithoutTimestamp(result) # WithoutTimestamp(prev.result)

-----------------------------------------------------------------------------
(* _get_fundamental_metrics on its own: the call stands at line 115 *)

\* the analysis at line 115 for provider answer p
AtFundamental(p, ticker_symbol, now) ==
    LET md == FetchMarketData(p)
        a1 == AfterFetch(InitialAnalysis(ticker_symbol, now), md).analysis
    IN AfterTechnical(a1,
           CalculateTechnicalIndicators(md.historical_data, p.faults.technical))

\* ticker.info with these three entries; an Absent entry is a missing key
FundamentalInfo(pe, pb, dy) ==
    LET all == ("forwardPE" :> pe) @@ ("priceToBook" :> pb)
               @@ ("dividendYield" :> dy)
    IN [name \in {name \in DOMAIN all : all[name] # Absent} |-> all[name]]

\* each entry missing, null, not a number, of another type, and on both sides
\* of each limit of its range
FundamentalProviders ==
    {[DefaultProvider EXCEPT !.info = FundamentalInfo(pe, pb, dy)] :
        pe \in {Absent, None, NaN, Str, Num(-1), Num(0), Num(1), Num(1000),
                Num(1001), Num(1500)},
        pb \in {Absent, None, Str, Num(0), Num(1), Num(100), Num(101)},
        dy \in {Absent, None, Str, Num(-1), Num(0), Num(100), Num(101)}}
    \cup {[DefaultProvider EXCEPT !.faults.fundamental = f] : f \in {"raise", "escape"}}

InitFundamental ==
    /\ self = Config
    /\ pc = "fundamental"
    /\ ticker = "aapl"
    /\ provider \in FundamentalProviders
    /\ clock = [date |-> 0, sec |-> 0]
    /\ analysis = AtFundamental(provider, ticker, clock)
    /\ result = NoResult
    /\ ran = <<"fetch", "technical">>
    /\ today = None
    /\ ncalls = 1
    /\ market_data = FetchMarketData(provider)
    /\ prev = NoPrev
    /\ threads = << >>
    /\ chain_requests = << >>
    /\ dash = << >>
    /\ etl = << >>

NextFundamental == StepFundamental

SpecFundamental == InitFundamental /\ [][NextFundamental]_vars

\* the fundamental stage has run on a snapshot that is a mapping
FundamentalRan == pc = "options" /\ provider.faults.fundamental = "none"

\* every entry of the snapshot is a number (NaN included), null or missing
C11_AllNumbers ==
    \A name \in DOMAIN provider.info : provider.info[name].k # "str"

\* the entry of the snapshot when it is a number inside its range, else null
C11_Kept(name, lo, hi, loIncluded) ==
    LET value == Get(provider.info, name, None) IN
    IF /\ value.k = "num"
       /\ (lo < value.v \/ (loIncluded /\ lo = value.v))
       /\ value.v <= hi
    THEN value ELSE None

\* C11: each field is validated on its own: forward_pe is the value iff
\* 0 < value <= 1000, price_to_book iff 0 < value <= 100, dividend_yield iff
\* 0 <= value <= 1, and null when the value is missing or out of range, whatever
\* the other two are; forward_pe = 1500 gives forward_pe = null.
C11_FieldValidation ==
    (FundamentalRan /\ C11_AllNumbers) =>
        LET fm == analysis.fundamental_metrics IN
        /\ fm.forward_pe = C11_Kept("forwardPE", 0, 1000, FALSE)
        /\ fm.price_to_book = C11_Kept("priceToBook", 0, 100, FALSE)
        /\ fm.dividend_yield = C11_Kept("dividendYield", 0, 100, TRUE)
        /\ (Get(provider.info, "forwardPE", None) = Num(1500)
               => fm.forward_pe = None)

\* C11 witness: forward P/E 1500 is rejected while the price-to-book of 100 and
\* the dividend yield of 0 next to it are kept
C11_Witness ==
    /\ FundamentalRan
    /\ provider.info = FundamentalInfo(Num(1500), Num(100), Num(0))
    /\ analysis.fundamental_metrics
          = [forward_pe |-> None, price_to_book |-> Num(100),
             dividend_yield |-> Num(0)]

\* the stage left a set with the three keys and recorded no failure
C12_SetReturned ==
    /\ DOMAIN analysis.fundamental_metrics
          = {"forward_pe", "price_to_book", "dividend_yield"}
    /\ analysis.data_quality.fundamental_data_complete
    /\ \A i \in 1..Len(analysis.data_quality.warnings) :
          analysis.data_quality.warnings[i] # "Failed to get fundamental metrics"

\* C12: for every snapshot mapping (keys missing, values null or of an
\* unexpected type) the stage returns a set with the keys forward_pe,
\* price_to_book and dividend_yield, and the orchestrator never records the
\* fundamental stage as failed.
C12_AlwaysThreeKeys == FundamentalRan => C12_SetReturned

\* the same for snapshots whose values are numbers or null: what the code does
C12_ThreeKeysForNumbers == (FundamentalRan /\ C11_AllNumbers) => C12_SetReturned

\* an empty snapshot gives the all-null set
C12_EmptyReached ==
    /\ FundamentalRan
    /\ provider.info = EmptyDict
    /\ analysis.fundamental_metrics
          = [forward_pe |-> None, price_to_book |-> None, dividend_yield |-> None]

-----------------------------------------------------------------------------
(* The order of the stages *)

AllStages == <<"fetch", "technical", "fundamental", "options", "signals">>

\* the current call fetched its market data and no exception leaves a stage
FetchedAndContained ==
    /\ pc # "idle"
    /\ market_data # PyNone
    /\ \A stage \in Stages : provider.faults[stage] # "escape"

\* C14: once market data is fetched the technical, fundamental and options
\* stages each run exactly once, in that order, whether or not an earlier one
\* failed, and the signal stage then runs over what was produced.
C14_StagesRunInOrder ==
    FetchedAndContained =>
        /\ Len(ran) <= Len(AllStages)
        /\ ran = SubSeq(AllStages, 1, Len(ran))
        /\ (pc # "returned" => pc = AllStages[Len(ran) + 1])
        /\ (pc = "returned" =>
               /\ ran = AllStages
               /\ result.trading_signal # EmptyDict
               /\ result.current_price = market_data.current_price)

\* C14 witness: the technical, fundamental and options stages all failed, and
\* all five stages ran and the result carries a trading signal
C14_Witness ==
    /\ pc = "returned"
    /\ provider.faults.technical = "raise"
    /\ provider.faults.fundamental = "raise"
    /\ provider.faults.options = "raise"
    /\ provider.faults.signals = "none"
    /\ ran = AllStages
    /\ result.trading_signal.signal = "NEUTRAL"
    /\ ~result.data_quality.technical_data_complete
    /\ ~result.data_quality.fundamental_data_complete

-----------------------------------------------------------------------------
(* The data-quality flags and the price of a result *)

\* the technical and fundamental flags are true only with a non-empty set
C15_TechnicalAndFundamentalFlags ==
    ReturnedAnalysis =>
        LET dq == result.data_quality IN
        /\ (dq.technical_data_complete => result.technical_indicators # EmptyDict)
        /\ (dq.fundamental_data_complete => result.fundamental_metrics # EmptyDict)

\* C15: in every returned result each *_data_complete flag is true only if its
\* metric set was produced: technical_data_complete is false when indicators are
\* not computable, fundamental_data_complete is false when no fundamental set
\* was returned, and options_data_complete is false when options_data_available
\* is false.
C15_FlagsMeanProduced ==
    ReturnedAnalysis =>
        LET dq == result.data_quality IN
        /\ (dq.technical_data_complete => result.technical_indicators # EmptyDict)
        /\ (dq.fundamental_data_complete => result.fundamental_metrics # EmptyDict)
        /\ (dq.options_data_complete => result.options_metrics.options_data_available)

\* what the code does: once the options stage has run, options_data_complete
\* is true whether or not options data is available
C15_OptionsFlagAlwaysSet ==
    ReturnedSignal => result.data_quality.options_data_complete

\* a result with options_data_complete true and options_data_available false
C15_UnavailableButCompleteReached ==
    /\ ReturnedSignal
    /\ provider.expirations = << >>
    /\ result.data_quality.options_data_complete
    /\ ~result.options_metrics.options_data_available

\* C16: in every returned result current_price is null or a number strictly
\* greater than 0, whatever the provider returns as the last close (zero, a
\* negative number and not-a-number included).
C16_PricePositive ==
    ReturnedAnalysis =>
        \/ result.current_price = None
        \/ (IsNum(result.current_price) /\ result.current_price.v > 0)

\* what the code does: a last close of zero or below gives null, and
\* not-a-number passes the test of line 168 and is returned as the price
C16_PriceNotBelowZero ==
    ReturnedAnalysis =>
        /\ ~Le(result.current_price, Num(0))
        /\ (Le(provider.close, Num(0)) => result.current_price = None)
        /\ (provider.close = NaN /\ market_data # PyNone
               => result.current_price = NaN)

\* a result whose current_price is not-a-number
C16_NaNPriceReached ==
    /\ ReturnedSignal
    /\ provider.close = NaN
    /\ result.current_price = NaN

-----------------------------------------------------------------------------
(* Calls for distinct tickers running concurrently on one analyzer.  Each
   call has its own locals; the analyzer's fields are the only state the calls
   share. *)

NumThreads == 2
Threads == 1..NumThreads

\* the ticker of each concurrent call: all distinct
ThreadTicker(t) ==
    CASE t = 1 -> "aapl"
      [] t = 2 -> "Msft"
      [] OTHER -> "GOOG"

\* the provider answers for the ticker of a concurrent call
ThreadProviders ==
    {DefaultProvider,
     ScenarioProvider,
     [DefaultProvider EXCEPT !.close = Num(0)],
     [DefaultProvider EXCEPT !.faults.technical = "escape"]}

\* the locals of a call not yet started
FreshThread(t, p) ==
    [pc |-> "idle", ticker |-> ThreadTicker(t), provider |-> p,
     analysis |-> EmptyDict, market_data |-> PyNone, result |-> NoResult,
     ran |-> << >>, today |-> None]

\* lines 65-146 with the call lowering the BUY threshold of the analyzer
FieldsAfterCallTuned(fields) ==
    [fields EXCEPT !.signal_thresholds.BUY = 150]

\* lines 65-146: the analyzer's fields after a step of a call; no statement of
\* get_quant_analysis or of the stage methods assigns to an attribute of self
FieldsAfterCall(fields) == fields

\* the locals of a call after its next step, read from its own locals, the
\* analyzer's fields and the clock
Advance(th, now) ==
    LET p == th.provider
        stage == th.pc
    IN IF stage = "idle"
       THEN [th EXCEPT !.pc = "fetch",
                       !.analysis = InitialAnalysis(th.ticker, now)]
       ELSE IF p.faults[stage] = "escape"
       THEN LET c == CatchAll(th.ticker, now)
            IN [th EXCEPT !.pc = c.pc, !.result = c.result,
                          !.ran = Append(@, stage)]
       ELSE IF stage = "fetch"
       THEN LET md == FetchMarketData(p)
                next == AfterFetch(th.analysis, md)
            IN [th EXCEPT !.market_data = md,
                          !.analysis = next.analysis,
                          !.pc = next.pc,
                          !.result = IF next.pc = "returned"
                                     THEN next.analysis ELSE @,
                          !.ran = Append(@, stage)]
       ELSE IF stage = "technical"
       THEN LET technical_indicators ==
                    CalculateTechnicalIndicators(th.market_data.historical_data,
                                                 p.faults.technical)
            IN [th EXCEPT !.analysis = AfterTechnical(@, technical_indicators),
                          !.pc = StageAfter(stage, technical_indicators),
                          !.ran = Append(@, stage)]
       ELSE IF stage = "fundamental"
       THEN LET fundamental_metrics ==
                    GetFundamentalMetrics(th.market_data.ticker_info,
                                          p.faults.fundamental)
            IN [th EXCEPT !.analysis = AfterFundamental(@, fundamental_metrics),
                          !.pc = StageAfter(stage, fundamental_metrics),
                          !.ran = Append(@, stage)]
       ELSE IF stage = "options"
       THEN LET options_metrics ==
                    AnalyzeOptionsChain(p, th.market_data.current_price, now.date)
            IN [th EXCEPT !.analysis = AfterOptions(@, options_metrics),
                          !.pc = StageAfter(stage, options_metrics),
                          !.today = Num(now.date),
                          !.ran = Append(@, stage)]
       ELSE LET a == AfterSignals(th.analysis,
                         GenerateSignals(th.analysis, p.faults.signals = "raise"))
            IN [th EXCEPT !.analysis = a, !.result = a, !.pc = "returned",
                          !.ran = Append(@, stage)]

InitConcurrent ==
    /\ self = Config
    /\ pc = "idle"
    /\ ticker = "aapl"
    /\ provider = DefaultProvider
    /\ clock = [date |-> 0, sec |-> 0]
    /\ analysis = EmptyDict
    /\ result = NoResult
    /\ ran = << >>
    /\ today = None
    /\ ncalls = 0
    /\ market_data = PyNone
    /\ prev = NoPrev
    /\ \E ps \in [Threads -> ThreadProviders] :
          threads = [t \in Threads |-> FreshThread(t, ps[t])]
    /\ chain_requests = << >>
    /\ dash = << >>
    /\ etl = << >>

\* one of the concurrent calls takes its next step
ThreadStep(t) ==
    /\ threads[t].pc # "returned"
    /\ threads' = [threads EXCEPT ![t] = Advance(@, clock)]
    /\ self' = FieldsAfterCall(self)
    /\ UNCHANGED <<pc, ticker, provider, clock, analysis, result, ran, today,
                   ncalls, market_data, prev, chain_requests, dash, etl>>

NextConcurrent == \E t \in Threads : ThreadStep(t)

SpecConcurrent == InitConcurrent /\ [][NextConcurrent]_vars

\* the result of a call with these locals when it runs to its end with no
\* other call on the analyzer
RECURSIVE C18_RunAlone(_, _)
C18_RunAlone(th, now) ==
    IF th.pc = "returned" THEN th.result
    ELSE C18_RunAlone(Advance(th, now), now)

C18_BothReturnedReached ==
    /\ \A t \in Threads : threads[t].pc = "returned"
    /\ threads[1].provider = DefaultProvider
    /\ threads[2].provider = ScenarioProvider
    /\ threads[1].result.trading_signal.signal
          # threads[2].result.trading_signal.signal

-----------------------------------------------------------------------------
(* _analyze_options_chain followed by _generate_signals: the call stands at
   line 124, with expiration lists, chains and failures of every kind *)

MaxExpirations == 2

\* expiration dates around the window of 1..365 days from day 0
ExpirationProviders ==
    {[DefaultProvider EXCEPT !.expirations = e] :
        e \in SeqsUpTo({Date(-1), Date(0), Date(1), Date(2), Date(365),
                        Date(366)}, MaxExpirations)}

\* one strike on each side, with implied volatilities not-a-number, 0, 0.20
\* and 0.40 at it
IvProviders ==
    {[DefaultProvider EXCEPT
        !.expirations = <<Date(1)>>,
        !.faults.greeks = g,
        !.chain = [fault |-> late,
                   calls |-> <<Row(100, Num(10), Num(10), civ)>>,
                   puts |-> <<Row(100, Num(30), Num(10), piv)>>]] :
      civ \in {NaN, Num(0), Num(20), Num(40)},
      piv \in {NaN, Num(0), Num(20), Num(40)}, g \in {"none", "raise"},
      late \in {"none", "late"}}

ChainProviders ==
    ExpirationProviders \cup StrikeProviders \cup IvProviders
    \cup {[DefaultProvider EXCEPT !.chain.fault = f] : f \in {"raise", "late"}}
    \cup {[DefaultProvider EXCEPT !.faults.options = f] : f \in {"raise", "escape"}}
    \cup {[DefaultProvider EXCEPT !.expirations = <<Date(2), BadDate>>]}

InitChain ==
    /\ self = Config
    /\ pc = "options"
    /\ ticker = "aapl"
    /\ provider \in ChainProviders
    /\ clock = [date |-> 0, sec |-> 0]
    /\ analysis = AtOptions(provider, ticker, clock)
    /\ result = NoResult
    /\ ran = <<"fetch", "technical", "fundamental">>
    /\ today = None
    /\ ncalls = 1
    /\ market_data = FetchMarketData(provider)
    /\ prev = NoPrev
    /\ threads = << >>
    /\ chain_requests = << >>
    /\ dash = << >>
    /\ etl = << >>

NextChain == StepOptions \/ StepSignals

SpecChain == InitChain /\ [][NextChain]_vars

\* the options stage has run (and did not let an exception out)
OptionsRan ==
    /\ pc \in {"signals", "returned"}
    /\ provider.faults.options = "none"
    /\ \A i \in 1..Len(provider.expirations) : provider.expirations[i].k = "date"

\* the listed expirations that are 1 to 365 days after the date read
C22_Window ==
    {provider.expirations[i].v : i \in
        {i \in 1..Len(provider.expirations) :
            /\ provider.expirations[i].v - today.v >= 1
            /\ provider.expirations[i].v - today.v <= 365}}

\* the chain can be fetched and processed to its end
C22_ChainUsable ==
    /\ provider.chain.fault = "none"
    /\ Len(provider.chain.calls) + Len(provider.chain.puts) > 0

\* C22: the stage returns {options_data_available: false} when the expiration
\* list is empty or no expiration is 1 to 365 days from today inclusive;
\* otherwise nearest_expiry is the expiration with the fewest days to expiry in
\* that window (never one at 0 days, in the past or beyond 365 days), and only
\* that expiration's chain is fetched.
C22_NearestExpiry ==
    OptionsRan =>
        IF C22_Window = {}
        THEN /\ analysis.options_metrics = OptionsUnavailable
             /\ chain_requests = << >>
        ELSE LET nearest == CHOOSE d \in C22_Window : \A e \in C22_Window : d <= e
             IN /\ chain_requests = <<nearest>>
                /\ (C22_ChainUsable <=>
                       analysis.options_metrics.options_data_available)
                /\ (C22_ChainUsable =>
                       analysis.options_metrics.nearest_expiry = Date(nearest))

\* C22 witness: expirations at 2 days and at 1 day, in that order; the one at 1
\* day is the nearest and its chain the only one fetched
C22_Witness ==
    /\ OptionsRan
    /\ provider.expirations = <<Date(2), Date(1)>>
    /\ analysis.options_metrics.options_data_available
    /\ analysis.options_metrics.nearest_expiry = Date(1)
    /\ chain_requests = <<1>>

\* expirations at 0 and at 366 days alone: nothing is fetched
C22_OutsideWindowReached ==
    /\ OptionsRan
    /\ provider.expirations = <<Date(0), Date(366)>>
    /\ analysis.options_metrics = OptionsUnavailable
    /\ chain_requests = << >>

\* the rows of a side of the chain at the reported ATM strike
C23_RowsAtAtm(rows) ==
    {i \in 1..Len(rows) : Num(rows[i].strike) = analysis.options_metrics.atm_strike}

\* an ATM strike is reported and the calls or the puts have no row at it
C23_SideMissing ==
    /\ OptionsRan
    /\ HasKey(analysis.options_metrics, "atm_strike")
    /\ \/ C23_RowsAtAtm(provider.chain.calls) = {}
       \/ C23_RowsAtAtm(provider.chain.puts) = {}

\* C23: when the chain has no call row or no put row at the ATM strike the
\* stage still returns options_data_available = true with nearest_expiry and
\* atm_strike and omits call_iv, put_iv, the Greeks, both put/call ratios and
\* the ATM totals; the signal stage then adds 0 to options_score.
C23_MissingSide ==
    C23_SideMissing =>
        /\ DOMAIN analysis.options_metrics
              = {"options_data_available", "nearest_expiry", "atm_strike"}
        /\ analysis.options_metrics.options_data_available
        /\ analysis.options_metrics.nearest_expiry = Date(1)
        /\ (pc = "returned" =>
               /\ result.options_metrics = analysis.options_metrics
               /\ result.trading_signal.options_score = 0)

\* C23 witness: calls at 100 only, puts at 105 only, price 101: ATM strike 100
\* without a put row, and the returned options score is 0
C23_Witness ==
    /\ C23_SideMissing
    /\ pc = "returned"
    /\ Strikes(provider.chain.calls) = <<100>>
    /\ Strikes(provider.chain.puts) = <<105>>
    /\ result.options_metrics.atm_strike = Num(100)
    /\ result.trading_signal.options_score = 0
    /\ result.trading_signal.technical_score # 0

GreekKeys ==
    {"call_delta", "call_gamma", "call_vega", "call_theta",
     "put_delta", "put_gamma", "put_vega", "put_theta"}

\* the implied volatility of the first row of a side at the ATM strike
C24_IvRead(rows) ==
    rows[CHOOSE i \in C23_RowsAtAtm(rows) : \A j \in C23_RowsAtAtm(rows) : i <= j]
        .impliedVolatility

\* the Greeks were computed
GreeksReported ==
    /\ OptionsRan
    /\ HasKey(analysis.options_metrics, "call_delta")

\* the volatility for the Greeks, in units of 1/200: 0.25 when an implied
\* volatility is zero; when one is not-a-number (and none is zero), 0.25 if
\* nanIsMissing and not-a-number otherwise; else the average of the two
C24_Volatility(civ, piv, nanIsMissing) ==
    IF civ = Num(0) \/ piv = Num(0) THEN Num(50)
    ELSE IF IsNum(civ) /\ IsNum(piv) THEN Num(civ.v + piv.v)
    ELSE IF nanIsMissing THEN Num(50) ELSE NaN

C24_SigmaIs(nanIsMissing) ==
    GreeksReported =>
        LET om == analysis.options_metrics
            civ == C24_IvRead(provider.chain.calls)
            piv == C24_IvRead(provider.chain.puts)
        IN /\ \A g \in GreekKeys :
                 om[g].sigma = C24_Volatility(civ, piv, nanIsMissing)
           /\ om.call_iv = (IF civ = NaN THEN None ELSE civ)
           /\ om.put_iv = (IF piv = NaN THEN None ELSE piv)

\* C24: if the call-side or put-side implied volatility at the ATM strike is
\* missing (absent or not-a-number) or zero, the volatility used for the Greeks
\* is the fallback 0.25, otherwise the average of the two; the fallback is
\* never written to call_iv/put_iv, which stay as read (null when
\* not-a-number).
C24_SigmaFallback == C24_SigmaIs(TRUE)

\* what the code does: the fallback whenever an implied volatility is zero; a
\* not-a-number implied volatility next to a non-zero one makes the volatility
\* not-a-number
C24_SigmaFallbackOnZeroOnly == C24_SigmaIs(FALSE)

\* Greeks computed from a not-a-number volatility
C24_NaNSigmaReached ==
    /\ GreeksReported
    /\ C24_IvRead(provider.chain.calls) = NaN
    /\ C24_IvRead(provider.chain.puts) = Num(40)
    /\ analysis.options_metrics.call_delta.sigma = NaN
    /\ analysis.options_metrics.call_iv = None

\* Greeks computed from the fallback, the zero implied volatility reported
C24_ZeroFallbackReached ==
    /\ GreeksReported
    /\ C24_IvRead(provider.chain.calls) = Num(0)
    /\ analysis.options_metrics.call_delta.sigma = Num(50)
    /\ analysis.options_metrics.call_iv = Num(0)

\* both sides have a row at the ATM strike and the Greeks calculation raised
C25_GreeksFailed ==
    /\ OptionsRan
    /\ provider.faults.greeks = "raise"
    /\ provider.chain.fault = "none"
    /\ HasKey(analysis.options_metrics, "atm_strike")
    /\ C23_RowsAtAtm(provider.chain.calls) # {}
    /\ C23_RowsAtAtm(provider.chain.puts) # {}

\* C25: if the Greeks calculation fails, none of the eight Greek fields is
\* written, while options_data_available stays true and atm_strike, call_iv,
\* put_iv, put_call_volume_ratio, put_call_oi_ratio, atm_total_volume and
\* atm_total_oi are still reported.
C25_GreeksOmitted ==
    /\ (OptionsRan /\ provider.faults.greeks = "raise") =>
           DOMAIN analysis.options_metrics \cap GreekKeys = {}
    /\ C25_GreeksFailed =>
           /\ analysis.options_metrics.options_data_available
           /\ DOMAIN analysis.options_metrics
                 = {"options_data_available", "nearest_expiry", "atm_strike",
                    "call_iv", "put_iv", "put_call_volume_ratio",
                    "put_call_oi_ratio", "atm_total_volume", "atm_total_oi"}

\* C25 witness: implied volatilities 0.20 and 0.40, put volume 30 against call
\* volume 10; the Greeks failed and the ratio 3 is reported
C25_Witness ==
    /\ C25_GreeksFailed
    /\ analysis.options_metrics.call_iv = Num(20)
    /\ analysis.options_metrics.put_iv = Num(40)
    /\ analysis.options_metrics.put_call_volume_ratio = Frac(3, 1)
    /\ ~HasKey(analysis.options_metrics, "call_delta")

\* the same chain without the failure has the eight Greeks
C25_GreeksReached ==
    /\ GreeksReported
    /\ GreekKeys \subseteq DOMAIN analysis.options_metrics
    /\ analysis.options_metrics.call_iv = Num(20)

\* the selected chain could not be fetched, or failed while it was processed:
\* option_chain raised, the chain has no strike at all, or a frame lacks the
\* volume column read after the Greeks
C26_ChainFailed ==
    /\ OptionsRan
    /\ C22_Window # {}
    /\ \/ provider.chain.fault = "raise"
       \/ Len(provider.chain.calls) + Len(provider.chain.puts) = 0
       \/ /\ provider.chain.fault = "late"
          /\ \E i \in 1..Len(provider.chain.calls) :
             \E j \in 1..Len(provider.chain.puts) :
                /\ provider.chain.calls[i].strike = provider.chain.puts[j].strike
                /\ provider.chain.calls[i].strike
                      = AtmStrike(Unique(Strikes(provider.chain.calls)
                                         \o Strikes(provider.chain.puts)),
                                  market_data.current_price)

\* C26: any failure while the selected chain is fetched or processed, other
\* than a failure of the Greeks, makes the stage return exactly
\* {options_data_available: false}: nearest_expiry, atm_strike, the implied
\* volatilities and the Greeks already computed are discarded, and nothing
\* propagates to the orchestrator.
C26_ChainFailureUnavailable ==
    C26_ChainFailed =>
        /\ analysis.options_metrics = OptionsUnavailable
        /\ ran[Len(ran)] \in {"options", "signals"}
        /\ (pc = "returned" =>
               /\ ReturnedSignal
               /\ result.options_metrics = OptionsUnavailable)

\* C26 witness: the failure came after the implied volatilities and the Greeks
\* had been computed, and the call returned its analysis without them
C26_Witness ==
    /\ C26_ChainFailed
    /\ provider.chain.fault = "late"
    /\ provider.faults.greeks = "none"
    /\ provider.chain.calls[1].impliedVolatility = Num(20)
    /\ pc = "returned"
    /\ result.options_metrics = OptionsUnavailable
    /\ result.trading_signal.options_score = 0

\* option_chain itself raising is reached as well
C26_FetchFailureReached ==
    /\ C26_ChainFailed
    /\ provider.chain.fault = "raise"
    /\ pc = "returned"

-----------------------------------------------------------------------------
(* app.py: the four cached queries and the routes / and /api/refresh, served
   by the threaded development server (app.run, line 363) *)

analyzerVars ==
    <<pc, ticker, provider, clock, analysis, result, ran, today, ncalls, self,
      market_data, prev, threads, chain_requests>>

\* no analysis is being made
AnalyzerIdle ==
    /\ self = Config
    /\ pc = "idle"
    /\ ticker = "aapl"
    /\ provider = DefaultProvider
    /\ clock = [date |-> 0, sec |-> 0]
    /\ analysis = EmptyDict
    /\ result = NoResult
    /\ ran = << >>
    /\ today = None
    /\ ncalls = 0
    /\ market_data = PyNone
    /\ prev = NoPrev
    /\ threads = << >>
    /\ chain_requests = << >>

\* the functions under @lru_cache(maxsize=1), in the order both routes call
\* them (lines 290-293 and 325-328)
CachedFunctions ==
    <<"get_analytics_data", "get_news_data", "get_economic_data",
      "get_summary_metrics">>
Funs == 1..Len(CachedFunctions)

\* the requests the server can be serving at the same time, and how many
\* requests arrive in all
Requests == {"r1", "r2"}
MaxRequests == 3

\* a cache of one entry: empty, or the data of a query that ran when the cache
\* had been cleared `fetched` times
NoEntry == [cached |-> FALSE, fetched |-> 0]
Entry(fetched) == [cached |-> TRUE, fetched |-> fetched]

NoRequest ==
    [kind |-> "none", at |-> "idle", f |-> 1, got |-> 0, cleared |-> 0,
     status |-> 0, failed_at |-> 0]

InFlight(req) == req.at \notin {"idle", "done"}

\* process start: the caches are empty, nothing was queried
InitDashboard ==
    /\ AnalyzerIdle
    /\ dash = [cache |-> [f \in Funs |-> NoEntry],
               clears |-> [f \in Funs |-> 0],
               done |-> [f \in Funs |-> 0],
               raised |-> [f \in Funs |-> FALSE],
               req |-> [r \in Requests |-> NoRequest],
               started |-> 0,
               overlapped |-> FALSE,
               last |-> "none"]
    /\ etl = << >>

\* the position after function f has returned: the next function, or the
\* charts (lines 296-297 and 331-332)
AfterFunction(req) ==
    IF req.f < Len(CachedFunctions)
    THEN [req EXCEPT !.at = "lookup", !.f = req.f + 1]
    ELSE [req EXCEPT !.at = "charts"]

\* the except clauses of the routes (306-308, 343-345) answer 500; failed_at is
\* the function whose call raised, or one past the last when the charts raised
Respond(req, status, failed_at) ==
    [req EXCEPT !.at = "done", !.status = status, !.failed_at = failed_at]

\* a request for / (dashboard, line 283) or /api/refresh (refresh_data, 311)
\* is accepted by the server
Arrive(r, kind) ==
    /\ ~InFlight(dash.req[r])
    /\ dash.started < MaxRequests
    /\ dash' = [dash EXCEPT
           !.req[r] = [NoRequest EXCEPT
                          !.kind = kind,
                          !.at = IF kind = "refresh" THEN "clear" ELSE "lookup"],
           !.started = dash.started + 1,
           !.overlapped = dash.overlapped
                          \/ \E o \in Requests \ {r} : InFlight(dash.req[o])]
    /\ UNCHANGED <<analyzerVars, etl>>

\* lines 319-322: one cache_clear()
CacheClear(r) ==
    LET req == dash.req[r] IN
    /\ req.at = "clear"
    /\ dash' = [dash EXCEPT
           !.cache[req.f] = NoEntry,
           !.clears[req.f] = dash.clears[req.f] + 1,
           !.done[req.f] = 0,
           !.raised[req.f] = FALSE,
           !.req[r] = IF req.f < Len(CachedFunctions)
                      THEN [req EXCEPT !.f = req.f + 1,
                                       !.cleared = req.cleared + 1]
                      ELSE [req EXCEPT !.at = "lookup", !.f = 1,
                                       !.cleared = req.cleared + 1]]
    /\ UNCHANGED <<analyzerVars, etl>>

\* the lru_cache wrapper looks the key up: a hit returns the cached data, a
\* miss goes on to call the function
CacheLookup(r) ==
    LET req == dash.req[r] IN
    /\ req.at = "lookup"
    /\ dash' = [dash EXCEPT
           !.req[r] = IF dash.cache[req.f].cached
                      THEN AfterFunction(req)
                      ELSE [req EXCEPT !.at = "query"]]
    /\ UNCHANGED <<analyzerVars, etl>>

\* the function body (e.g. lines 61-65): the query runs on the database, or
\* connecting or executing raises and the route's except clause answers 500
RunQuery(r) ==
    LET req == dash.req[r] IN
    /\ req.at = "query"
    /\ \E ok \in BOOLEAN :
          dash' = IF ok
                  THEN [dash EXCEPT
                           !.done[req.f] = dash.done[req.f] + 1,
                           !.req[r] = [req EXCEPT !.at = "store",
                                                  !.got = dash.clears[req.f]]]
                  ELSE [dash EXCEPT
                           !.raised[req.f] = TRUE,
                           !.req[r] = Respond(req, 500, req.f),
                           !.last = r]
    /\ UNCHANGED <<analyzerVars, etl>>

\* the lru_cache wrapper after the call: the result is stored unless the key
\* was added meanwhile, and returned
CacheStore(r) ==
    LET req == dash.req[r] IN
    /\ req.at = "store"
    /\ dash' = [dash EXCEPT
           !.cache[req.f] = IF dash.cache[req.f].cached
                            THEN dash.cache[req.f]
                            ELSE Entry(req.got),
           !.req[r] = AfterFunction(req)]
    /\ UNCHANGED <<analyzerVars, etl>>

\* lines 296-304 and 331-341: the charts and the response, or an exception
\* while they are built
Charts(r) ==
    LET req == dash.req[r] IN
    /\ req.at = "charts"
    /\ \E ok \in BOOLEAN :
          dash' = [dash EXCEPT
                      !.req[r] = IF ok
                                 THEN Respond(req, 200, 0)
                                 ELSE Respond(req, 500,
                                              Len(CachedFunctions) + 1),
                      !.last = r]
    /\ UNCHANGED <<analyzerVars, etl>>

NextDashboard ==
    \E r \in Requests :
        \/ Arrive(r, "dashboard")
        \/ Arrive(r, "refresh")
        \/ CacheClear(r)
        \/ CacheLookup(r)
        \/ RunQuery(r)
        \/ CacheStore(r)
        \/ Charts(r)

SpecDashboard == InitDashboard /\ [][NextDashboard]_vars

\* C27: between two cache clears (process start or /api/refresh) each of the
\* four cached query functions runs its database query at most once, however
\* many dashboard requests are served and in whatever interleaving concurrent
\* requests arrive; a query that raised is not cached and is retried by the
\* next request.
C27_QueryOnce ==
    \A f \in Funs : dash.done[f] <= 1

\* while no two requests have been served at the same time, a function's
\* query completes at most once between clears, a cached entry comes from
\* that one query, and a query that raised leaves the cache as it was
C27_QueryOnceWhenSerial ==
    ~dash.overlapped =>
        \A f \in Funs :
            /\ dash.done[f] <= 1
            /\ (dash.cache[f].cached => dash.done[f] = 1)
            /\ (\E r \in Requests : /\ dash.req[r].at = "done"
                                    /\ dash.req[r].failed_at = f
                                    /\ dash.last = r
                                    /\ \A o \in Requests : ~InFlight(dash.req[o]))
                   => ~dash.cache[f].cached

\* two dashboard requests since process start, and get_analytics_data's query
\* has completed twice
C27_TwoQueriesReached ==
    /\ \A r \in Requests : dash.req[r].kind = "dashboard"
    /\ dash.started = 2
    /\ \A f \in Funs : dash.clears[f] = 0
    /\ dash.done[1] = 2

\* one request after the other: the query raised for the first and ran again
\* for the next
C27_RetryReached ==
    /\ ~dash.overlapped
    /\ dash.raised[1]
    /\ dash.done[1] = 1
    /\ dash.cache[1].cached

\* request r is a refresh that has answered; no request has answered since and
\* none is being served
JustRefreshed(r) ==
    /\ dash.req[r].kind = "refresh"
    /\ dash.req[r].at = "done"
    /\ dash.last = r
    /\ \A o \in Requests : ~InFlight(dash.req[o])

\* the caches after a refresh that has just answered: those of the functions
\* before failed_at hold data queried after their last clear, the others are
\* empty; the status is 500 exactly when something failed
C28_After(r) ==
    LET req == dash.req[r]
        failed_at == IF req.status = 200 THEN Len(CachedFunctions) + 1
                     ELSE req.failed_at
    IN /\ req.status \in {200, 500}
       /\ req.status = 500 <=> req.failed_at > 0
       /\ \A f \in Funs :
             IF f < failed_at
             THEN dash.cache[f] = Entry(dash.clears[f])
             ELSE dash.cache[f] = NoEntry

\* every refresh clears the four caches before its first lookup
C28_ClearsFirst ==
    \A r \in Requests :
        (dash.req[r].kind = "refresh" /\ dash.req[r].at # "clear")
            => dash.req[r].cleared = Len(CachedFunctions)

\* C28: /api/refresh clears all four caches before re-fetching anything; if a
\* re-fetch then fails, the endpoint answers success=false with status 500 and
\* the previously cached data is not restored, so the caches whose re-fetch
\* did not complete are empty and the next dashboard request queries the
\* database again; after a successful refresh all four caches hold data
\* fetched after the clear.
C28_RefreshFresh ==
    /\ C28_ClearsFirst
    /\ \A r \in Requests : JustRefreshed(r) => C28_After(r)

\* the same for a refresh during which no other request was being served
C28_RefreshFreshWhenSerial ==
    /\ C28_ClearsFirst
    /\ \A r \in Requests :
          (JustRefreshed(r) /\ ~dash.overlapped) => C28_After(r)

\* a refresh answered 200 while get_analytics_data's cache holds data queried
\* before the clear
C28_StaleAfterRefreshReached ==
    \E r \in Requests :
        /\ JustRefreshed(r)
        /\ dash.req[r].status = 200
        /\ dash.cache[1].cached
        /\ dash.cache[1].fetched < dash.clears[1]

\* a refresh alone failed at get_economic_data: 500, the first two caches
\* refilled, the last two empty
C28_FailedRefreshReached ==
    \E r \in Requests :
        /\ JustRefreshed(r)
        /\ ~dash.overlapped
        /\ dash.started > 1
        /\ dash.req[r].status = 500
        /\ dash.req[r].failed_at = 3
        /\ dash.cache[2] = Entry(1)
        /\ dash.cache[3] = NoEntry

-----------------------------------------------------------------------------
(* pipeline.py: the ETL run of __main__ and extract_stock_data *)

MaxSymbols == 3

\* line 36: the default BASE_STOCK_SYMBOLS, cut to MaxSymbols
BASE_STOCK_SYMBOLS ==
    LET default == <<"AAPL", "MSFT", "GOOGL", "TSLA">>
    IN SubSeq(default, 1, IF MaxSymbols < Len(default) THEN MaxSymbols
                          ELSE Len(default))

\* what one request to Alpha Vantage can give (lines 89-118):
\*   fault  "request" when requests.get / raise_for_status raises, "other"
\*          when response.json() raises, "none" otherwise
\*   keys   the keys of the JSON object
\*   rows   the days of the time series that are well formed
\*   bad    a day with a missing price field follows them (KeyError)
Response(fault, keys, rows, bad) ==
    [fault |-> fault, keys |-> keys, rows |-> rows, bad |-> bad]

Responses ==
    {Response("request", {}, 0, FALSE), Response("other", {}, 0, FALSE)}
    \cup {Response("none", k, 0, FALSE) :
            k \in {{}, {"Error Message"}, {"Note"}, {"Error Message", "Note"}}}
    \cup {Response("none", {"Time Series (Daily)"}, 2, FALSE),
          Response("none", {"Time Series (Daily)"}, 1, TRUE),
          Response("none", {"Time Series (Daily)", "Note"}, 2, FALSE)}

\* lines 109-118: one record per day of the series
SeriesRows(symbol, n) ==
    [d \in 1..n |-> [symbol |-> symbol, trade_date |-> d]]

\* lines 94-127 with the rate-limit Note skipping the symbol like the other
\* failures
HandleResponseNoteSkips(response, symbol, all_data) ==
    IF response.fault # "none" THEN [all_data |-> all_data, stop |-> FALSE]
    ELSE IF "Time Series (Daily)" \notin response.keys
              \/ response.keys \cap {"Error Message", "Note"} # {}
    THEN [all_data |-> all_data, stop |-> FALSE]
    ELSE [all_data |-> all_data \o SeriesRows(symbol, response.rows),
          stop |-> FALSE]

\* the body of the loop of extract_stock_data for one symbol, lines 78-127:
\* the rows collected and whether the loop stops (break) or goes on
HandleResponse(response, symbol, all_data) ==
    IF response.fault # "none"
    THEN [all_data |-> all_data, stop |-> FALSE]
    ELSE IF "Error Message" \in response.keys
    THEN [all_data |-> all_data, stop |-> FALSE]
    ELSE IF "Note" \in response.keys
    THEN [all_data |-> all_data, stop |-> TRUE]
    ELSE IF "Time Series (Daily)" \notin response.keys
    THEN [all_data |-> all_data, stop |-> FALSE]
    ELSE [all_data |-> all_data \o SeriesRows(symbol, response.rows),
          stop |-> FALSE]

\* the run before its first statement
InitPipeline ==
    /\ AnalyzerIdle
    /\ dash = << >>
    /\ etl = [pc |-> "connect",
              events |-> << >>,
              outcome |-> "running",
              requested |-> << >>,
              responses |-> << >>,
              all_data |-> << >>,
              rows |-> 0]

\* a step of the run is recorded: its name, whether it succeeded, and for an
\* extraction the number of rows of its frame
Log(e, step, ok, rows) ==
    [e EXCEPT !.events = Append(e.events,
                                [step |-> step, ok |-> ok, rows |-> rows])]

\* lines 410-412: the exception is logged and raised again
Raise(e) == [e EXCEPT !.pc = "exit", !.outcome = "failed"]

\* lines 402-408 logging success whatever execute_transformations returned
AfterTransformationIgnoresResult(e, returned) ==
    [Log(e, "success", TRUE, 0) EXCEPT !.pc = "exit", !.outcome = "success"]

\* lines 402-408: success is logged when execute_transformations returned
\* True, an exception is raised when it returned False
AfterTransformation(e, returned) ==
    IF returned
    THEN [Log(e, "success", TRUE, 0) EXCEPT !.pc = "exit", !.outcome = "success"]
    ELSE Raise(e)

\* lines 374-377
ConnectionTest ==
    /\ etl.pc = "connect"
    /\ \E ok \in BOOLEAN :
          etl' = IF ok THEN [Log(etl, "connect", TRUE, 0) EXCEPT !.pc = "stock"]
                 ELSE Raise(Log(etl, "connect", FALSE, 0))
    /\ UNCHANGED <<analyzerVars, dash>>

\* line 383, one turn of the loop of extract_stock_data (78-127); after the
\* last symbol or a break the frame is returned (129-133)
RequestStock ==
    /\ etl.pc = "stock"
    /\ \E response \in Responses :
          LET symbol == BASE_STOCK_SYMBOLS[Len(etl.requested) + 1]
              handled == HandleResponse(response, symbol, etl.all_data)
              e == [etl EXCEPT !.requested = Append(etl.requested, symbol),
                               !.responses = Append(etl.responses, response),
                               !.all_data = handled.all_data]
          IN etl' = IF handled.stop \/ Len(e.requested) = Len(BASE_STOCK_SYMBOLS)
                    THEN [Log(e, "extract_stock", TRUE, Len(e.all_data))
                             EXCEPT !.pc = "load_stock",
                                    !.rows = Len(e.all_data)]
                    ELSE e
    /\ UNCHANGED <<analyzerVars, dash>>

\* lines 388 and 393: extract_news_data and extract_econ_data return a frame,
\* with rows or empty
Extract(at, step, next) ==
    /\ etl.pc = at
    /\ \E rows \in 0..1 :
          etl' = [Log(etl, step, TRUE, rows) EXCEPT !.pc = next, !.rows = rows]
    /\ UNCHANGED <<analyzerVars, dash>>

\* lines 384-385, 389-390, 394-395 with load_to_staging (290-326): nothing is
\* loaded from an empty frame; a failed load raises
Load(at, step, next) ==
    /\ etl.pc = at
    /\ \E ok \in BOOLEAN :
          etl' = IF etl.rows = 0 THEN [etl EXCEPT !.pc = next]
                 ELSE IF ok THEN [Log(etl, step, TRUE, etl.rows) EXCEPT !.pc = next]
                 ELSE Raise(Log(etl, step, FALSE, etl.rows))
    /\ UNCHANGED <<analyzerVars, dash>>

LoadStock == Load("load_stock", "load_stock", "news")
ExtractNews == Extract("news", "extract_news", "load_news")
LoadNews == Load("load_news", "load_news", "econ")
ExtractEcon == Extract("econ", "extract_econ", "load_econ")
LoadEcon == Load("load_econ", "load_econ", "transform")

\* lines 402-408 with execute_transformations (329-366): True when the script
\* ran, False when it is missing or anything raised
ExecuteTransformations ==
    /\ etl.pc = "transform"
    /\ \E happened \in {"ran", "no_script", "raised"} :
          LET returned == happened = "ran"
          IN etl' = AfterTransformation(Log(etl, "transform", returned, 0),
                                        returned)
    /\ UNCHANGED <<analyzerVars, dash>>

NextPipeline ==
    \/ ConnectionTest
    \/ RequestStock
    \/ LoadStock
    \/ ExtractNews
    \/ LoadNews
    \/ ExtractEcon
    \/ LoadEcon
    \/ ExecuteTransformations

SpecPipeline == InitPipeline /\ [][NextPipeline]_vars

\* the steps of a run in the order of the claim
C29_Order ==
    <<"connect", "extract_stock", "load_stock", "extract_news", "load_news",
      "extract_econ", "load_econ", "transform", "success">>

C29_Rank(step) == CHOOSE i \in 1..Len(C29_Order) : C29_Order[i] = step

\* the steps that are never skipped
C29_Always == {"connect", "extract_stock", "extract_news", "extract_econ"}

C29_Steps == {etl.events[i].step : i \in 1..Len(etl.events)}

C29_LoadOf(step) ==
    CASE step = "extract_stock" -> "load_stock"
      [] step = "extract_news" -> "load_news"
      [] step = "extract_econ" -> "load_econ"

\* C29: the ETL main sequence runs strictly in the order connection test, stock
\* extract+load, news extract+load, economic extract+load, transformation; the
\* transformation is executed only if no earlier step raised; an extraction
\* without rows skips its load but does not stop the sequence; a load failure
\* or a transformation returning False ends the run with an exception; success
\* is logged only after the transformation returned True.
C29_MainSequence ==
    LET ev == etl.events IN
    /\ \A i \in 1..Len(ev) : \A j \in 1..Len(ev) :
          i < j => C29_Rank(ev[i].step) < C29_Rank(ev[j].step)
    /\ \A i \in 1..Len(ev) : \A m \in C29_Always :
          C29_Rank(m) < C29_Rank(ev[i].step) => m \in C29_Steps
    /\ \A i \in 1..Len(ev) :
          /\ ev[i].step = "transform" => \A j \in 1..(i - 1) : ev[j].ok
          /\ ~ev[i].ok =>
                /\ i = Len(ev)
                /\ etl.outcome = "failed" /\ etl.pc = "exit"
                /\ ev[i].step \in {"connect", "load_stock", "load_news",
                                   "load_econ", "transform"}
          /\ ev[i].step \in {"extract_stock", "extract_news", "extract_econ"} =>
                /\ ev[i].rows = 0 => C29_LoadOf(ev[i].step) \notin C29_Steps
                /\ (ev[i].rows > 0 /\ i < Len(ev)) =>
                       ev[i + 1].step = C29_LoadOf(ev[i].step)
                /\ (i = Len(ev)) => etl.outcome = "running"
          /\ ev[i].step = "success" =>
                /\ i > 1 /\ ev[i - 1].step = "transform" /\ ev[i - 1].ok
                /\ etl.outcome = "success"
    /\ etl.outcome = "failed" => (ev # << >> /\ ~ev[Len(ev)].ok)
    /\ etl.outcome = "success" => (ev # << >> /\ ev[Len(ev)].step = "success")

\* C29 witness: stock and economic data loaded, no news, the transformation
\* returned True and success was logged
C29_Witness ==
    /\ etl.outcome = "success"
    /\ [i \in 1..Len(etl.events) |-> etl.events[i].step]
          = <<"connect", "extract_stock", "load_stock", "extract_news",
              "extract_econ", "load_econ", "transform", "success">>

\* the transformation returned False: no success, the run ends failed
C29_TransformationFailedReached ==
    /\ etl.outcome = "failed"
    /\ etl.events[Len(etl.events)] = [step |-> "transform", ok |-> FALSE, rows |-> 0]

\* a load failed: the run ends there, before the transformation
C29_LoadFailedReached ==
    /\ etl.outcome = "failed"
    /\ etl.events[Len(etl.events)].step = "load_news"
    /\ "transform" \notin C29_Steps

\* no extraction gave a row and the run still came to its end
C29_NothingExtractedReached ==
    /\ etl.outcome = "success"
    /\ C29_Steps \cap {"load_stock", "load_news", "load_econ"} = {}

\* extract_stock_data has returned
StockExtracted == etl.pc \notin {"connect", "stock"} /\ etl.requested # << >>

\* a response that is the rate-limit note (the error message is tested first)
C30_IsNote(response) ==
    /\ response.fault = "none"
    /\ "Note" \in response.keys
    /\ "Error Message" \notin response.keys

\* the rows of the i-th symbol: those of a series, none for a failure
C30_RowsOf(i) ==
    LET response == etl.responses[i] IN
    IF /\ response.fault = "none"
       /\ response.keys = {"Time Series (Daily)"}
    THEN SeriesRows(BASE_STOCK_SYMBOLS[i], response.rows)
    ELSE << >>

RECURSIVE C30_RowsUpTo(_)
C30_RowsUpTo(n) ==
    IF n = 0 THEN << >> ELSE C30_RowsUpTo(n - 1) \o C30_RowsOf(n)

\* C30: extract_stock_data processes the symbols in list order and never
\* raises on a per-symbol failure: a request error, an API 'Error Message' or a
\* response without a time series skips only that symbol and the next symbol
\* is still requested, whereas a rate-limit 'Note' response stops the loop so
\* that no later symbol is requested; in every case the rows already collected
\* for earlier symbols are returned.
C30_PerSymbol ==
    LET n == Len(etl.requested) IN
    /\ n <= Len(BASE_STOCK_SYMBOLS)
    /\ etl.requested = SubSeq(BASE_STOCK_SYMBOLS, 1, n)
    /\ Len(etl.responses) = n
    /\ etl.all_data = C30_RowsUpTo(n)
    /\ \A i \in 1..n : C30_IsNote(etl.responses[i]) => i = n
    /\ (etl.pc = "stock" /\ n > 0) => ~C30_IsNote(etl.responses[n])
    /\ StockExtracted =>
          /\ n = Len(BASE_STOCK_SYMBOLS) \/ C30_IsNote(etl.responses[n])
          /\ etl.events[2] = [step |-> "extract_stock", ok |-> TRUE,
                              rows |-> Len(etl.all_data)]
          /\ etl.rows = Len(C30_RowsUpTo(n)) \/ etl.pc \notin {"load_stock"}

\* C30 witness: a series for the first symbol, a request error for the second,
\* the note for the third; the first symbol's rows are returned
C30_Witness ==
    /\ etl.pc = "load_stock"
    /\ Len(etl.requested) >= 3
    /\ etl.responses[1].keys = {"Time Series (Daily)"} /\ ~etl.responses[1].bad
    /\ etl.responses[2].fault = "request"
    /\ C30_IsNote(etl.responses[3])
    /\ etl.all_data = SeriesRows("AAPL", 2)
    /\ etl.rows = 2

\* the note for the first symbol: nothing more is requested, an empty frame
C30_NoteFirstReached ==
    /\ StockExtracted
    /\ etl.requested = <<"AAPL">>
    /\ etl.all_data = << >>

\* an error message for the first symbol and the second is still requested
C30_ErrorThenNextReached ==
    /\ etl.pc = "stock"
    /\ Len(etl.requested) = 2
    /\ "Error Message" \in etl.responses[1].keys
    /\ etl.all_data = SeriesRows("MSFT", 2)

====
